---- MODULE Spec2Model ----
(***************************************************************************)
(* A model of the email deliverability tester (src/src/email-tester.ts)    *)
(* and of the email sender (email-sender.ts, kept in src/unnamed/part_004).*)
(*                                                                         *)
(* Strings the code inspects character by character (addresses, domains,   *)
(* TXT chunks) are sequences of one-character strings.  Every external     *)
(* call (DNS, cloud API, SMTP) is answered by the environment; the answer  *)
(* is an input of the action and the call is appended, with its answer, to *)
(* the log `calls` of the operation in progress.                           *)
(***************************************************************************)
EXTENDS Integers, Sequences, FiniteSets, TLC

VARIABLES
    env,      \* process.env: the recognised variables, "" when unset
    tester,   \* the EmailDeliverabilityTester instance: sesClient, defaultFromEmail
    sender,   \* the EmailSender instance: sesClient, smtpTransporter, defaultFromEmail
    op,       \* the operation that returned last ("idle" before any, and between calls)
    arg,      \* its argument
    ret,      \* its return value
    threw,    \* TRUE iff it ended with an exception instead of a value
    calls     \* the external calls it issued, in order, each with its answer

vars == <<env, tester, sender, op, arg, ret, threw, calls>>

(***************************************************************************)
(* Values shared by the operations                                         *)
(***************************************************************************)

\* JavaScript's undefined for an optional string (messageId, error, from)
Undefined == "<undefined>"

\* JavaScript's undefined for an optional text kept as a character sequence
NoText == [defined |-> FALSE, value |-> <<>>]

SomeText(s) == [defined |-> TRUE, value |-> s]

\* !x for an optional text: undefined and the empty string are falsy
Falsy(t) == ~t.defined \/ t.value = <<>>

NoArg == <<>>

\* a string in a boolean position: undefined and "" are falsy
Truthy(s) == s # Undefined /\ s # ""

\* a || b on optional strings
Or(a, b) == IF Truthy(a) THEN a ELSE b

Range(s) == {s[i] : i \in 1..Len(s)}

\* A promise's outcome: resolved with a value, rejected with an Error
\* (val is its message), or rejected with something that is not an Error.
Resolved(v) == [kind |-> "resolved", val |-> v]

Rejected(m) == [kind |-> "error", val |-> m]

RejectedOther == [kind |-> "other", val |-> Undefined]

\* error instanceof Error ? error.message : fallback
ErrorMessage(outcome, fallback) ==
    IF outcome.kind = "error" THEN outcome.val ELSE fallback

Call(fn, a, answer) == [fn |-> fn, arg |-> a, answer |-> answer]

Fns(log) == [i \in 1..Len(log) |-> log[i].fn]

Count(log, fn) == Cardinality({i \in 1..Len(log) : log[i].fn = fn})

(***************************************************************************)
(* EmailDeliverabilityTester: format and domain                            *)
(***************************************************************************)

Whitespace == {" "}

\* the character class [^\s@]
Plain(c) == c \notin Whitespace /\ c # "@"

\* the pattern without its dot: /^[^\s@]+@[^\s@]+$/
validateEmailFormat_NoDot(email) ==
    \E i \in 1..Len(email) :
        /\ email[i] = "@"
        /\ 1 < i
        /\ i < Len(email)
        /\ \A k \in 1..Len(email) : k # i => Plain(email[k])

\* the pattern letting the dot end the string: /^[^\s@]+@[^\s@]+\.[^\s@]*$/
validateEmailFormat_DotMayEnd(email) ==
    \E i \in 1..Len(email) : \E j \in 1..Len(email) :
        /\ email[i] = "@"
        /\ email[j] = "."
        /\ 1 < i
        /\ i + 1 < j
        /\ \A k \in 1..Len(email) : (k # i /\ k # j) => Plain(email[k])

\* /^[^\s@]+@[^\s@]+\.[^\s@]+$/.test(email)
validateEmailFormat(email) ==
    \E i \in 1..Len(email) : \E j \in 1..Len(email) :
        /\ email[i] = "@"
        /\ email[j] = "."
        /\ 1 < i
        /\ i + 1 < j
        /\ j < Len(email)
        /\ \A k \in 1..Len(email) : (k # i /\ k # j) => Plain(email[k])

\* the positions of "@" in s
Ats(s) == {i \in 1..Len(s) : s[i] = "@"}

Min(S) == CHOOSE x \in S : \A y \in S : x <= y

\* email.split('@')[1]: what lies between the first and the second "@"
extractDomain(email) ==
    IF Ats(email) = {} THEN <<"undefined">>
    ELSE LET first == Min(Ats(email))
             later == {i \in Ats(email) : i > first}
             stop  == IF later = {} THEN Len(email) + 1 ELSE Min(later)
         IN  SubSeq(email, first + 1, stop - 1)

(***************************************************************************)
(* EmailDeliverabilityTester: the DNS checks                               *)
(***************************************************************************)

\* String.prototype.toLowerCase, one character at a time
LowerChar(c) ==
    CASE c = "V" -> "v"
      [] c = "S" -> "s"
      [] c = "P" -> "p"
      [] c = "F" -> "f"
      [] c = "D" -> "d"
      [] c = "M" -> "m"
      [] c = "A" -> "a"
      [] c = "R" -> "r"
      [] c = "C" -> "c"
      [] c = "T" -> "t"
      [] c = "U" -> "u"
      [] c = "E" -> "e"
      [] OTHER -> c

toLowerCase(s) == [i \in 1..Len(s) |-> LowerChar(s[i])]

startsWith(s, prefix) ==
    Len(s) >= Len(prefix) /\ SubSeq(s, 1, Len(prefix)) = prefix

RECURSIVE join(_)
\* record.join(''): the chunks of a TXT record, concatenated
join(chunks) ==
    IF chunks = <<>> THEN <<>> ELSE Head(chunks) \o join(Tail(chunks))

PrefixSpf == <<"v", "=", "s", "p", "f", "1">>

PrefixDmarc == <<"v", "=", "d", "m", "a", "r", "c", "1">>

\* txtRecords.find(record => record.some(txt => txt.toLowerCase().startsWith(prefix)))
\* followed by  found ? found.join('') : undefined
FindTxt(txtRecords, prefix) ==
    LET hits == {i \in 1..Len(txtRecords) :
                    \E k \in 1..Len(txtRecords[i]) :
                        startsWith(toLowerCase(txtRecords[i][k]), prefix)}
    IN  IF hits = {} THEN NoText ELSE SomeText(join(txtRecords[Min(hits)]))

\* checkDomainAndMX without its try/catch: a rejected lookup is thrown on
checkDomainAndMX_NoCatch(domain, mxAnswer) ==
    LET log == <<Call("dns.resolveMx", domain, mxAnswer)>>
    IN  IF mxAnswer.kind = "resolved"
        THEN [exists |-> TRUE, mxRecords |-> mxAnswer.val, calls |-> log, threw |-> FALSE]
        ELSE [exists |-> FALSE, mxRecords |-> <<>>, calls |-> log, threw |-> TRUE,
              error |-> mxAnswer]

\* checkDomainAndMX keeping the records and never reporting the domain
checkDomainAndMX_NeverExists(domain, mxAnswer) ==
    LET log == <<Call("dns.resolveMx", domain, mxAnswer)>>
    IN  IF mxAnswer.kind = "resolved"
        THEN [exists |-> FALSE, mxRecords |-> mxAnswer.val, calls |-> log, threw |-> FALSE]
        ELSE [exists |-> FALSE, mxRecords |-> <<>>, calls |-> log, threw |-> FALSE]

\* checkDomainAndMX: a resolved lookup is kept as it is (mxRecords || []),
\* a rejected one becomes { exists: false, mxRecords: [] }
checkDomainAndMX(domain, mxAnswer) ==
    LET log == <<Call("dns.resolveMx", domain, mxAnswer)>>
    IN  IF mxAnswer.kind = "resolved"
        THEN [exists |-> TRUE, mxRecords |-> mxAnswer.val, calls |-> log, threw |-> FALSE]
        ELSE [exists |-> FALSE, mxRecords |-> <<>>, calls |-> log, threw |-> FALSE]

\* checkSpfRecord: the TXT records of the domain itself
checkSpfRecord(domain, txtAnswer) ==
    LET log == <<Call("dns.resolveTxt", domain, txtAnswer)>>
    IN  IF txtAnswer.kind = "resolved"
        THEN [val |-> FindTxt(txtAnswer.val, PrefixSpf), calls |-> log, threw |-> FALSE]
        ELSE [val |-> NoText, calls |-> log, threw |-> FALSE]

\* `_dmarc.${domain}`
DmarcDomain(domain) == <<"_", "d", "m", "a", "r", "c", ".">> \o domain

\* checkDmarcRecord: the TXT records of _dmarc.<domain>
checkDmarcRecord(domain, txtAnswer) ==
    LET log == <<Call("dns.resolveTxt", DmarcDomain(domain), txtAnswer)>>
    IN  IF txtAnswer.kind = "resolved"
        THEN [val |-> FindTxt(txtAnswer.val, PrefixDmarc), calls |-> log, threw |-> FALSE]
        ELSE [val |-> NoText, calls |-> log, threw |-> FALSE]

(***************************************************************************)
(* EmailDeliverabilityTester: the delivery backends                        *)
(***************************************************************************)

\* a backend's entry of deliverabilityTests; present = FALSE when the key is absent
NoDelivery ==
    [present |-> FALSE, success |-> FALSE, messageId |-> Undefined, error |-> Undefined]

DeliveryOk(id) ==
    [present |-> TRUE, success |-> TRUE, messageId |-> id, error |-> Undefined]

DeliveryFailed(e) ==
    [present |-> TRUE, success |-> FALSE, messageId |-> Undefined, error |-> e]

SkippedId == "skipped-test-mode"

\* testAwsSesDelivery: not configured, else skipped, else one SendEmailCommand
testAwsSesDelivery(self, config, sesAnswer) ==
    IF ~self.sesClient
    THEN [val |-> DeliveryFailed("AWS SES not configured"), calls |-> <<>>, threw |-> FALSE]
    ELSE IF config.skipActualDelivery
    THEN [val |-> DeliveryOk(SkippedId), calls |-> <<>>, threw |-> FALSE]
    ELSE LET log == <<Call("ses.send:SendEmail",
                            [to |-> config.email, from |-> self.defaultFromEmail],
                            sesAnswer)>>
         IN  IF sesAnswer.kind = "resolved"
             THEN [val |-> DeliveryOk(sesAnswer.val), calls |-> log, threw |-> FALSE]
             ELSE [val |-> DeliveryFailed(ErrorMessage(sesAnswer, "Unknown error")),
                   calls |-> log, threw |-> FALSE]

\* testSmtpDelivery with the skipActualDelivery test left out
testSmtpDelivery_NoSkip(self, config, verifyAnswer, sendMailAnswer) ==
    IF ~config.smtpConfig.given
    THEN [val |-> DeliveryFailed("SMTP configuration not provided"),
          calls |-> <<>>, threw |-> FALSE]
    ELSE LET v == Call("smtp.verify", NoArg, verifyAnswer)
             m == Call("smtp.sendMail",
                       [to |-> config.email,
                        from |-> Or(config.smtpConfig.user, self.defaultFromEmail)],
                       sendMailAnswer)
         IN  IF verifyAnswer.kind # "resolved"
             THEN [val |-> DeliveryFailed(ErrorMessage(verifyAnswer, "Unknown error")),
                   calls |-> <<v>>, threw |-> FALSE]
             ELSE IF sendMailAnswer.kind # "resolved"
             THEN [val |-> DeliveryFailed(ErrorMessage(sendMailAnswer, "Unknown error")),
                   calls |-> <<v, m>>, threw |-> FALSE]
             ELSE [val |-> DeliveryOk(sendMailAnswer.val), calls |-> <<v, m>>,
                   threw |-> FALSE]

\* testSmtpDelivery looking at skipActualDelivery before the configuration
testSmtpDelivery_SkipFirst(self, config, verifyAnswer, sendMailAnswer) ==
    IF config.skipActualDelivery
    THEN [val |-> DeliveryOk(SkippedId), calls |-> <<>>, threw |-> FALSE]
    ELSE IF ~config.smtpConfig.given
    THEN [val |-> DeliveryFailed("SMTP configuration not provided"),
          calls |-> <<>>, threw |-> FALSE]
    ELSE LET v == Call("smtp.verify", NoArg, verifyAnswer)
             m == Call("smtp.sendMail",
                       [to |-> config.email,
                        from |-> Or(config.smtpConfig.user, self.defaultFromEmail)],
                       sendMailAnswer)
         IN  IF verifyAnswer.kind # "resolved"
             THEN [val |-> DeliveryFailed(ErrorMessage(verifyAnswer, "Unknown error")),
                   calls |-> <<v>>, threw |-> FALSE]
             ELSE IF sendMailAnswer.kind # "resolved"
             THEN [val |-> DeliveryFailed(ErrorMessage(sendMailAnswer, "Unknown error")),
                   calls |-> <<v, m>>, threw |-> FALSE]
             ELSE [val |-> DeliveryOk(sendMailAnswer.val), calls |-> <<v, m>>,
                   threw |-> FALSE]

\* testSmtpDelivery: no smtpConfig, else skipped, else verify() and then sendMail()
testSmtpDelivery(self, config, verifyAnswer, sendMailAnswer) ==
    IF ~config.smtpConfig.given
    THEN [val |-> DeliveryFailed("SMTP configuration not provided"),
          calls |-> <<>>, threw |-> FALSE]
    ELSE IF config.skipActualDelivery
    THEN [val |-> DeliveryOk(SkippedId), calls |-> <<>>, threw |-> FALSE]
    ELSE LET v == Call("smtp.verify", NoArg, verifyAnswer)
             m == Call("smtp.sendMail",
                       [to |-> config.email,
                        from |-> Or(config.smtpConfig.user, self.defaultFromEmail)],
                       sendMailAnswer)
         IN  IF verifyAnswer.kind # "resolved"
             THEN [val |-> DeliveryFailed(ErrorMessage(verifyAnswer, "Unknown error")),
                   calls |-> <<v>>, threw |-> FALSE]
             ELSE IF sendMailAnswer.kind # "resolved"
             THEN [val |-> DeliveryFailed(ErrorMessage(sendMailAnswer, "Unknown error")),
                   calls |-> <<v, m>>, threw |-> FALSE]
             ELSE [val |-> DeliveryOk(sendMailAnswer.val), calls |-> <<v, m>>,
                   threw |-> FALSE]

(***************************************************************************)
(* EmailDeliverabilityTester: recommendations                              *)
(***************************************************************************)

\* The lines are kept as word sequences, so that `includes` can be computed.
LineInvalidFormat ==
    <<"Email", "format", "is", "invalid", ".", "Please", "check", "the", "email",
      "address", ".">>

LineNoDomain ==
    <<"Domain", "does", "not", "exist", "or", "has", "no", "MX", "records", ".",
      "Check", "domain", "configuration", ".">>

LineNoMx ==
    <<"No", "MX", "records", "found", ".", "Email", "delivery", "may", "fail", ".">>

LineNoSpf ==
    <<"No", "SPF", "record", "found", ".", "Consider", "adding", "an", "SPF",
      "record", "to", "improve", "deliverability", ".">>

LineNoDmarc ==
    <<"No", "DMARC", "record", "found", ".", "Consider", "adding", "a", "DMARC",
      "policy", "for", "better", "email", "security", ".">>

LineSesFailed(e) == <<"AWS", "SES", "delivery", "failed", ":", e>>

LineSmtpFailed(e) == <<"SMTP", "delivery", "failed", ":", e>>

LineSuccess ==
    <<"Email", "appears", "to", "be", "deliverable", ".", "All", "tests", "passed",
      "successfully", ".">>

\* condition ? [line] : []
If(cond, line) == IF cond THEN <<line>> ELSE <<>>

\* generateRecommendations with the domain test nested under the format test
generateRecommendations_DomainElse(result) ==
    LET found ==
            (IF ~result.isValid THEN <<LineInvalidFormat>>
             ELSE If(~result.domainExists, LineNoDomain))
         \o If(Len(result.mxRecords) = 0, LineNoMx)
         \o If(Falsy(result.spfRecord), LineNoSpf)
         \o If(Falsy(result.dmarcRecord), LineNoDmarc)
         \o If(result.deliverabilityTests.awsSes.present
                 /\ ~result.deliverabilityTests.awsSes.success,
               LineSesFailed(result.deliverabilityTests.awsSes.error))
         \o If(result.deliverabilityTests.smtp.present
                 /\ ~result.deliverabilityTests.smtp.success,
               LineSmtpFailed(result.deliverabilityTests.smtp.error))
    IN  IF Len(found) = 0 THEN <<LineSuccess>> ELSE found

\* generateRecommendations with the MX test skipped for a missing domain
generateRecommendations_MxUnderDomain(result) ==
    LET found ==
            If(~result.isValid, LineInvalidFormat)
         \o (IF ~result.domainExists THEN <<LineNoDomain>>
             ELSE If(Len(result.mxRecords) = 0, LineNoMx))
         \o If(Falsy(result.spfRecord), LineNoSpf)
         \o If(Falsy(result.dmarcRecord), LineNoDmarc)
         \o If(result.deliverabilityTests.awsSes.present
                 /\ ~result.deliverabilityTests.awsSes.success,
               LineSesFailed(result.deliverabilityTests.awsSes.error))
         \o If(result.deliverabilityTests.smtp.present
                 /\ ~result.deliverabilityTests.smtp.success,
               LineSmtpFailed(result.deliverabilityTests.smtp.error))
    IN  IF Len(found) = 0 THEN <<LineSuccess>> ELSE found

\* generateRecommendations(result)
generateRecommendations(result) ==
    LET found ==
            If(~result.isValid, LineInvalidFormat)
         \o If(~result.domainExists, LineNoDomain)
         \o If(Len(result.mxRecords) = 0, LineNoMx)
         \o If(Falsy(result.spfRecord), LineNoSpf)
         \o If(Falsy(result.dmarcRecord), LineNoDmarc)
         \o If(result.deliverabilityTests.awsSes.present
                 /\ ~result.deliverabilityTests.awsSes.success,
               LineSesFailed(result.deliverabilityTests.awsSes.error))
         \o If(result.deliverabilityTests.smtp.present
                 /\ ~result.deliverabilityTests.smtp.success,
               LineSmtpFailed(result.deliverabilityTests.smtp.error))
    IN  IF Len(found) = 0 THEN <<LineSuccess>> ELSE found

(***************************************************************************)
(* EmailDeliverabilityTester: construction and testEmailDeliverability     *)
(***************************************************************************)

EnvNames ==
    {"AWS_ACCESS_KEY_ID", "AWS_SECRET_ACCESS_KEY", "EMAIL_FROM", "AWS_EMAIL_FROM",
     "SMTP_EMAIL_FROM", "SMPT_EMAIL_FROM", "SMTP_HOST", "SMPTP_HOST", "SMTP_USER",
     "SMPT_USER", "SMTP_PASS", "SMTP_PASSWORD", "SMPT_PASSWORD"}

\* the value a variable holds when it is set
EnvValue(n) ==
    CASE n = "EMAIL_FROM" -> "from@email-from"
      [] n = "AWS_EMAIL_FROM" -> "from@aws-email-from"
      [] n = "SMTP_EMAIL_FROM" -> "from@smtp-email-from"
      [] n = "SMPT_EMAIL_FROM" -> "from@smpt-email-from"
      [] OTHER -> "set"

\* the environment in which exactly the variables of S are set
EnvWith(S) == [n \in EnvNames |-> IF n \in S THEN EnvValue(n) ELSE ""]

FallbackFrom == "no-reply@example.com"

\* new EmailDeliverabilityTester(awsConfig?, fromEmail?)
EmailDeliverabilityTester(awsConfig, fromEmail, e) ==
    [sesClient |-> awsConfig
                     \/ (Truthy(e["AWS_ACCESS_KEY_ID"]) /\ Truthy(e["AWS_SECRET_ACCESS_KEY"])),
     defaultFromEmail |-> Or(fromEmail, Or(e["EMAIL_FROM"], FallbackFrom))]

\* SmtpConfig as far as the tester reads it: whether it was given, and auth?.user
NoSmtpConfig == [given |-> FALSE, user |-> Undefined]

SmtpConfig(user) == [given |-> TRUE, user |-> user]

\* an EmailTestConfig; provider and smtpConfig may be omitted, an omitted
\* skipActualDelivery is falsy
EmailTestConfig(email, provider, smtpConfig, skip) ==
    [email |-> email, provider |-> provider, smtpConfig |-> smtpConfig,
     skipActualDelivery |-> skip]

\* what the value returned for a thrown exception stands for
NoReturn == [none |-> TRUE]

NotRun == [val |-> NoDelivery, calls |-> <<>>, threw |-> FALSE]

RECURSIVE RunSteps(_)
\* the steps of an async function in order, up to the first that throws
RunSteps(steps) ==
    IF steps = <<>> THEN [calls |-> <<>>, threw |-> FALSE]
    ELSE IF Head(steps).threw
    THEN [calls |-> Head(steps).calls, threw |-> TRUE, error |-> Head(steps).error]
    ELSE LET rest == RunSteps(Tail(steps))
         IN  [rest EXCEPT !.calls = Head(steps).calls \o rest.calls]

\* testEmailDeliverability leaving the backends alone when the domain is missing
testEmailDeliverability_StopsOnNoDomain(self, config, w) ==
    LET isValid == validateEmailFormat(config.email)
        invalid == [email |-> config.email,
                    isValid |-> FALSE,
                    domainExists |-> FALSE,
                    mxRecords |-> <<>>,
                    spfRecord |-> NoText,
                    dmarcRecord |-> NoText,
                    deliverabilityTests |-> [awsSes |-> NoDelivery, smtp |-> NoDelivery]]
        domain == extractDomain(config.email)
        domainCheck == checkDomainAndMX(domain, w.mx)
        spf == checkSpfRecord(domain, w.spfTxt)
        dmarc == checkDmarcRecord(domain, w.dmarcTxt)
        provider == IF config.provider = Undefined THEN "both" ELSE config.provider
        ses == IF provider \in {"aws-ses", "both"} /\ domainCheck.exists
               THEN testAwsSesDelivery(self, config, w.ses)
               ELSE NotRun
        smtp == IF provider \in {"smtp", "both"} /\ domainCheck.exists
                THEN testSmtpDelivery(self, config, w.verify, w.sendMail)
                ELSE NotRun
        run == RunSteps(<<domainCheck, spf, dmarc, ses, smtp>>)
        result == [email |-> config.email,
                   isValid |-> TRUE,
                   domainExists |-> domainCheck.exists,
                   mxRecords |-> domainCheck.mxRecords,
                   spfRecord |-> spf.val,
                   dmarcRecord |-> dmarc.val,
                   deliverabilityTests |-> [awsSes |-> ses.val, smtp |-> smtp.val]]
    IN  IF ~isValid
        THEN [val |-> invalid @@ [recommendations |-> generateRecommendations(invalid)],
              calls |-> <<>>, threw |-> FALSE]
        ELSE IF run.threw
        THEN [val |-> NoReturn, calls |-> run.calls, threw |-> TRUE, error |-> run.error]
        ELSE [val |-> result @@ [recommendations |-> generateRecommendations(result)],
              calls |-> run.calls, threw |-> FALSE]

\* testEmailDeliverability(config), the environment answering with w
testEmailDeliverability(self, config, w) ==
    LET isValid == validateEmailFormat(config.email)
        invalid == [email |-> config.email,
                    isValid |-> FALSE,
                    domainExists |-> FALSE,
                    mxRecords |-> <<>>,
                    spfRecord |-> NoText,
                    dmarcRecord |-> NoText,
                    deliverabilityTests |-> [awsSes |-> NoDelivery, smtp |-> NoDelivery]]
        domain == extractDomain(config.email)
        domainCheck == checkDomainAndMX(domain, w.mx)
        spf == checkSpfRecord(domain, w.spfTxt)
        dmarc == checkDmarcRecord(domain, w.dmarcTxt)
        provider == IF config.provider = Undefined THEN "both" ELSE config.provider
        ses == IF provider \in {"aws-ses", "both"}
               THEN testAwsSesDelivery(self, config, w.ses)
               ELSE NotRun
        smtp == IF provider \in {"smtp", "both"}
                THEN testSmtpDelivery(self, config, w.verify, w.sendMail)
                ELSE NotRun
        run == RunSteps(<<domainCheck, spf, dmarc, ses, smtp>>)
        result == [email |-> config.email,
                   isValid |-> TRUE,
                   domainExists |-> domainCheck.exists,
                   mxRecords |-> domainCheck.mxRecords,
                   spfRecord |-> spf.val,
                   dmarcRecord |-> dmarc.val,
                   deliverabilityTests |-> [awsSes |-> ses.val, smtp |-> smtp.val]]
    IN  IF ~isValid
        THEN [val |-> invalid @@ [recommendations |-> generateRecommendations(invalid)],
              calls |-> <<>>, threw |-> FALSE]
        ELSE IF run.threw
        THEN [val |-> NoReturn, calls |-> run.calls, threw |-> TRUE, error |-> run.error]
        ELSE [val |-> result @@ [recommendations |-> generateRecommendations(result)],
              calls |-> run.calls, threw |-> FALSE]

(***************************************************************************)
(* EmailDeliverabilityTester: testMultipleEmails and validateEmails        *)
(***************************************************************************)

LineErrorTesting(e) == <<"Error", "testing", "email", ":", e>>

\* isDeliverable without the test of the MX list
IsDeliverable_NoMx(result) == result.isValid /\ result.domainExists

\* result.isValid && result.domainExists && result.mxRecords.length > 0
IsDeliverable(result) ==
    result.isValid /\ result.domainExists /\ Len(result.mxRecords) > 0

\* the catch branch pushing a result that still counts as valid
CaughtResult_KeepsValid(config, error) ==
    [email |-> config.email,
     isValid |-> TRUE,
     domainExists |-> TRUE,
     mxRecords |-> <<>>,
     spfRecord |-> NoText,
     dmarcRecord |-> NoText,
     deliverabilityTests |-> [awsSes |-> NoDelivery, smtp |-> NoDelivery],
     recommendations |-> <<LineErrorTesting(ErrorMessage(error, "Unknown error"))>>]

\* the result the catch branch of testMultipleEmails pushes
CaughtResult(config, error) ==
    [email |-> config.email,
     isValid |-> FALSE,
     domainExists |-> FALSE,
     mxRecords |-> <<>>,
     spfRecord |-> NoText,
     dmarcRecord |-> NoText,
     deliverabilityTests |-> [awsSes |-> NoDelivery, smtp |-> NoDelivery],
     recommendations |-> <<LineErrorTesting(ErrorMessage(error, "Unknown error"))>>]

\* the loop body counting a result as failed only when the domain is missing
BatchStep_FailedOnDomain(acc, config, r) ==
    IF r.threw
    THEN [acc EXCEPT !.failed = @ + 1,
                     !.results = Append(@, CaughtResult(config, r.error)),
                     !.calls = @ \o r.calls]
    ELSE [acc EXCEPT !.results = Append(@, r.val),
                     !.successful = IF IsDeliverable(r.val) THEN @ + 1 ELSE @,
                     !.failed = IF r.val.domainExists THEN @ ELSE @ + 1,
                     !.calls = @ \o r.calls]

\* one pass of the for loop of testMultipleEmails: r is what
\* testEmailDeliverability(config) came to; acc holds results, successful,
\* failed and the calls issued so far
BatchStep(acc, config, r) ==
    IF r.threw
    THEN [acc EXCEPT !.failed = @ + 1,
                     !.results = Append(@, CaughtResult(config, r.error)),
                     !.calls = @ \o r.calls]
    ELSE [acc EXCEPT !.results = Append(@, r.val),
                     !.successful = IF IsDeliverable(r.val) THEN @ + 1 ELSE @,
                     !.failed = IF IsDeliverable(r.val) THEN @ ELSE @ + 1,
                     !.calls = @ \o r.calls]

RECURSIVE BatchLoop(_, _, _, _)
\* for (const config of configs), from the first item not yet in acc.results
BatchLoop(self, configs, ws, acc) ==
    IF Len(acc.results) >= Len(configs) THEN acc
    ELSE BatchLoop(self, configs, ws,
             BatchStep(acc, configs[Len(acc.results) + 1],
                       testEmailDeliverability(self, configs[Len(acc.results) + 1],
                                               ws[Len(acc.results) + 1])))

\* the value testMultipleEmails returns once the loop is done
BatchResult(configs, done) ==
    [val |-> [successful |-> done.successful,
              failed |-> done.failed,
              total |-> Len(configs),
              results |-> done.results],
     calls |-> done.calls, threw |-> FALSE]

\* testMultipleEmails(configs), the environment answering item i with ws[i]
testMultipleEmails(self, configs, ws) ==
    BatchResult(configs,
        BatchLoop(self, configs, ws,
            [results |-> <<>>, successful |-> 0, failed |-> 0, calls |-> <<>>]))

RECURSIVE BatchLoopOver(_, _, _)
\* the same loop, rs[i] being what `await this.testEmailDeliverability(configs[i])`
\* came to: the method is dispatched on `this`, so that a subclass or a test
\* double may answer, and may reject
BatchLoopOver(configs, rs, acc) ==
    IF Len(acc.results) >= Len(configs) THEN acc
    ELSE BatchLoopOver(configs, rs,
             BatchStep(acc, configs[Len(acc.results) + 1], rs[Len(acc.results) + 1]))

\* testMultipleEmails(configs) over the outcomes rs of the per-item calls
testMultipleEmailsOver(configs, rs) ==
    BatchResult(configs,
        BatchLoopOver(configs, rs,
            [results |-> <<>>, successful |-> 0, failed |-> 0, calls |-> <<>>]))

\* a per-item call that rejected with error
Thrown(error) == [val |-> NoReturn, calls |-> <<>>, threw |-> TRUE, error |-> error]

\* r.includes(word), on a line kept as words
Includes(line, word) == word \in Range(line)

RECURSIVE Issues(_)
\* recommendations.filter(r => !r.includes('successfully'))
Issues(lines) ==
    IF lines = <<>> THEN <<>>
    ELSE IF ~Includes(Head(lines), "successfully")
    THEN <<Head(lines)>> \o Issues(Tail(lines))
    ELSE Issues(Tail(lines))

RECURSIVE Partition_Unshift(_, _)
\* the forEach putting each undeliverable result at the front of invalidEmails
Partition_Unshift(results, acc) ==
    IF results = <<>> THEN acc
    ELSE IF IsDeliverable(Head(results))
    THEN Partition_Unshift(Tail(results),
             [acc EXCEPT !.validEmails = Append(@, Head(results).email)])
    ELSE Partition_Unshift(Tail(results),
             [acc EXCEPT !.invalidEmails =
                 <<[email |-> Head(results).email,
                    issues |-> Issues(Head(results).recommendations)]>> \o @])

RECURSIVE Partition(_, _)
\* the forEach of validateEmails: each result goes to validEmails or to
\* invalidEmails, in order
Partition(results, acc) ==
    IF results = <<>> THEN acc
    ELSE IF IsDeliverable(Head(results))
    THEN Partition(Tail(results),
             [acc EXCEPT !.validEmails = Append(@, Head(results).email)])
    ELSE Partition(Tail(results),
             [acc EXCEPT !.invalidEmails =
                 Append(@, [email |-> Head(results).email,
                            issues |-> Issues(Head(results).recommendations)])])

\* emails.map(email => ({ email, skipActualDelivery: true }))
ValidationConfigs(emails) ==
    [i \in 1..Len(emails) |-> EmailTestConfig(emails[i], Undefined, NoSmtpConfig, TRUE)]

\* the value validateEmails returns, given the two lists
ValidationResult(emails, lists) ==
    [validEmails |-> lists.validEmails,
     invalidEmails |-> lists.invalidEmails,
     summary |-> [total |-> Len(emails),
                  valid |-> Len(lists.validEmails),
                  invalid |-> Len(lists.invalidEmails)]]

\* validateEmails, given what testMultipleEmails came to
ValidateBatch(emails, batchResult) ==
    [val |-> ValidationResult(emails,
                 Partition(batchResult.val.results,
                           [validEmails |-> <<>>, invalidEmails |-> <<>>])),
     calls |-> batchResult.calls, threw |-> batchResult.threw]

\* validateEmails(emails)
validateEmails(self, emails, ws) ==
    ValidateBatch(emails, testMultipleEmails(self, ValidationConfigs(emails), ws))

(***************************************************************************)
(* The inputs of the tester's operations                                   *)
(***************************************************************************)

AddrValid == <<"a", "@", "b", ".", "c">>

AddrNoAt == <<"a", "b", ".", "c">>

AddrNoDot == <<"a", "@", "b">>

AddrSpace == <<"a", " ", "@", "b", ".", "c">>

TestEmails == {AddrValid, AddrNoAt, AddrNoDot, AddrSpace}

Providers == {Undefined, "aws-ses", "smtp", "both"}

SmtpConfigs == {NoSmtpConfig, SmtpConfig("smtp-user"), SmtpConfig(Undefined)}

TestConfigs ==
    {EmailTestConfig(e, p, c, k) :
        e \in TestEmails, p \in Providers, c \in SmtpConfigs, k \in BOOLEAN}

Mx1 == [exchange |-> "mx.b.c", priority |-> 10]

MxAnswers == {Resolved(<<Mx1>>), Resolved(<<>>), Rejected("ENOTFOUND")}

ChunkSpf == <<"v", "=", "s", "p", "f", "1", " ", "x">>

ChunkSpfUpper == <<"V", "=", "S", "P", "F", "1">>

ChunkDmarc == <<"v", "=", "D", "M", "A", "R", "C", "1", ";">>

ChunkOther == <<"x", "=", "1">>

TxtAnswers ==
    {Resolved(<< <<ChunkOther>> >>),
     Resolved(<< <<ChunkOther>>, <<ChunkDmarc>>, <<ChunkSpfUpper, ChunkSpf>> >>),
     Rejected("ENODATA")}

SesAnswers == {Resolved("ses-id"), Rejected("ses-error"), RejectedOther}

VerifyAnswers == {Resolved(Undefined), Rejected("verify-error")}

SendMailAnswers == {Resolved("smtp-id"), Rejected("sendmail-error"), RejectedOther}

Worlds ==
    [mx : MxAnswers, spfTxt : TxtAnswers, dmarcTxt : TxtAnswers,
     ses : SesAnswers, verify : VerifyAnswers, sendMail : SendMailAnswers]

\* the longest list handed to a batch operation
MaxBatch == 2

\* the sequences over S of length at most n
SeqsUpTo(S, n) == UNION {[1..k -> S] : k \in 0..n}

BatchConfigs ==
    {EmailTestConfig(AddrValid, Undefined, NoSmtpConfig, TRUE),
     EmailTestConfig(AddrNoAt, "aws-ses", NoSmtpConfig, FALSE),
     EmailTestConfig(AddrValid, "both", SmtpConfig("smtp-user"), FALSE),
     EmailTestConfig(AddrNoDot, "smtp", SmtpConfig(Undefined), TRUE)}

\* per item: any MX answer, and the backends all accepting or all refusing
BatchWorlds ==
    {[mx |-> m, spfTxt |-> Resolved(<< <<ChunkSpf>> >>), dmarcTxt |-> Rejected("ENODATA"),
      ses |-> d[1], verify |-> Resolved(Undefined), sendMail |-> d[2]] :
        m \in MxAnswers,
        d \in {<<Resolved("ses-id"), Resolved("smtp-id")>>,
               <<Rejected("ses-error"), Rejected("sendmail-error")>>}}

TesterEnvs ==
    {EnvWith({"AWS_ACCESS_KEY_ID"}),
     EnvWith({"AWS_ACCESS_KEY_ID", "AWS_SECRET_ACCESS_KEY", "EMAIL_FROM"})}

NoSender == [none |-> TRUE]

NoTester == [none |-> TRUE]

(***************************************************************************)
(* The tester as a state machine                                           *)
(***************************************************************************)

Idle == op = "idle"

\* an operation returns: its outcome becomes the visible state
Returns(name, a, outcome) ==
    /\ op' = name
    /\ arg' = a
    /\ ret' = outcome.val
    /\ threw' = outcome.threw
    /\ calls' = outcome.calls

InitTester ==
    /\ env \in TesterEnvs
    /\ \E awsConfig \in BOOLEAN, fromEmail \in {Undefined, "from@constructor"} :
          tester = EmailDeliverabilityTester(awsConfig, fromEmail, env)
    /\ sender = NoSender
    /\ op = "idle"
    /\ arg = NoArg
    /\ ret = NoReturn
    /\ threw = FALSE
    /\ calls = <<>>

TestEmailDeliverability ==
    /\ Idle
    /\ \E config \in TestConfigs, w \in Worlds :
          Returns("testEmailDeliverability", config,
                  testEmailDeliverability(tester, config, w))
    /\ UNCHANGED <<env, tester, sender>>

\* quickEmailValidation(email): a tester built from the environment alone
QuickEmailValidation ==
    /\ Idle
    /\ \E email \in TestEmails, w \in Worlds :
          LET config == EmailTestConfig(email, Undefined, NoSmtpConfig, TRUE)
          IN  Returns("quickEmailValidation", config,
                      testEmailDeliverability(
                          EmailDeliverabilityTester(FALSE, Undefined, env), config, w))
    /\ UNCHANGED <<env, tester, sender>>

\* quickEmailTestWithSes(email)
QuickEmailTestWithSes ==
    /\ Idle
    /\ \E email \in TestEmails, w \in Worlds :
          LET config == EmailTestConfig(email, "aws-ses", NoSmtpConfig, FALSE)
          IN  Returns("quickEmailTestWithSes", config,
                      testEmailDeliverability(
                          EmailDeliverabilityTester(FALSE, Undefined, env), config, w))
    /\ UNCHANGED <<env, tester, sender>>

\* quickEmailTestWithSmtp(email, smtpConfig)
QuickEmailTestWithSmtp ==
    /\ Idle
    /\ \E email \in TestEmails, c \in SmtpConfigs \ {NoSmtpConfig}, w \in Worlds :
          LET config == EmailTestConfig(email, "smtp", c, FALSE)
          IN  Returns("quickEmailTestWithSmtp", config,
                      testEmailDeliverability(
                          EmailDeliverabilityTester(FALSE, Undefined, env), config, w))
    /\ UNCHANGED <<env, tester, sender>>

\* testMultipleEmails(configs)
TestMultipleEmails ==
    /\ Idle
    /\ \E configs \in SeqsUpTo(BatchConfigs, MaxBatch) :
          \E ws \in [1..Len(configs) -> BatchWorlds] :
              Returns("testMultipleEmails", configs,
                      testMultipleEmails(tester, configs, ws))
    /\ UNCHANGED <<env, tester, sender>>

\* validateEmails(emails)
ValidateEmails ==
    /\ Idle
    /\ \E emails \in SeqsUpTo(TestEmails, MaxBatch) :
          \E ws \in [1..Len(emails) -> BatchWorlds] :
              Returns("validateEmails", emails, validateEmails(tester, emails, ws))
    /\ UNCHANGED <<env, tester, sender>>

\* batchEmailValidation(emails): a tester built from the environment alone
BatchEmailValidation ==
    /\ Idle
    /\ \E emails \in SeqsUpTo(TestEmails, MaxBatch) :
          \E ws \in [1..Len(emails) -> BatchWorlds] :
              Returns("batchEmailValidation", emails,
                      validateEmails(EmailDeliverabilityTester(FALSE, Undefined, env),
                                     emails, ws))
    /\ UNCHANGED <<env, tester, sender>>

\* isAwsSesConfigured()
IsAwsSesConfigured ==
    /\ Idle
    /\ Returns("isAwsSesConfigured", NoArg,
               [val |-> tester.sesClient, calls |-> <<>>, threw |-> FALSE])
    /\ UNCHANGED <<env, tester, sender>>

\* setDefaultFromEmail(email)
SetDefaultFromEmail ==
    /\ Idle
    /\ \E email \in {"from@setter"} :
          /\ tester' = [tester EXCEPT !.defaultFromEmail = email]
          /\ Returns("setDefaultFromEmail", email,
                     [val |-> Undefined, calls |-> <<>>, threw |-> FALSE])
    /\ UNCHANGED <<env, sender>>

\* the caller has taken the result; the instance is ready for the next call
Return ==
    /\ ~Idle
    /\ op' = "idle"
    /\ arg' = NoArg
    /\ ret' = NoReturn
    /\ threw' = FALSE
    /\ calls' = <<>>
    /\ UNCHANGED <<env, tester, sender>>

NextTester ==
    \/ TestEmailDeliverability
    \/ QuickEmailValidation
    \/ QuickEmailTestWithSes
    \/ QuickEmailTestWithSmtp
    \/ TestMultipleEmails
    \/ ValidateEmails
    \/ BatchEmailValidation
    \/ IsAwsSesConfigured
    \/ SetDefaultFromEmail
    \/ Return

SpecTester == InitTester /\ [][NextTester]_vars

(***************************************************************************)
(* testMultipleEmails with a per-item test that may reject                 *)
(***************************************************************************)

NoFault == [kind |-> "none", val |-> Undefined]

\* what an overriding testEmailDeliverability may do to one item: run the
\* inherited test, reject with an Error, reject with another value
Faults == {NoFault, Rejected("boom"), RejectedOther}

\* the outcome of the per-item call for each config
ItemOutcomes(self, configs, ws, faults) ==
    [i \in 1..Len(configs) |->
        IF faults[i] = NoFault
        THEN testEmailDeliverability(self, configs[i], ws[i])
        ELSE Thrown(faults[i])]

\* testMultipleEmails(configs) on an instance whose testEmailDeliverability
\* may reject for some items
TestMultipleEmailsOverridden ==
    /\ Idle
    /\ \E configs \in SeqsUpTo(BatchConfigs, MaxBatch) :
          \E ws \in [1..Len(configs) -> BatchWorlds], faults \in [1..Len(configs) -> Faults] :
              Returns("testMultipleEmails:overridden",
                      [configs |-> configs, faults |-> faults],
                      testMultipleEmailsOver(configs,
                          ItemOutcomes(tester, configs, ws, faults)))
    /\ UNCHANGED <<env, tester, sender>>

NextBatch ==
    \/ TestMultipleEmailsOverridden
    \/ Return

SpecBatch == InitTester /\ [][NextBatch]_vars

(***************************************************************************)
(* EmailSender: construction                                               *)
(***************************************************************************)

\* an EmailSenderConfig: aws and smtp say whether that object was given,
\* autoDetectFromEnv is "true", "false" or undefined
EmailSenderConfig(aws, smtp, defaultFrom, autoDetect) ==
    [aws |-> aws, smtp |-> smtp, defaultFrom |-> defaultFrom,
     autoDetectFromEnv |-> autoDetect]

\* hasAwsEnvVars()
hasAwsEnvVars(e) ==
    Truthy(e["AWS_ACCESS_KEY_ID"]) /\ Truthy(e["AWS_SECRET_ACCESS_KEY"])

\* hasSmtpEnvVars() reading the correctly spelt names only
hasSmtpEnvVars_SpeltRight(e) ==
    /\ Truthy(e["SMTP_HOST"])
    /\ Truthy(e["SMTP_USER"])
    /\ Truthy(Or(e["SMTP_PASS"], e["SMTP_PASSWORD"]))

\* hasSmtpEnvVars()
hasSmtpEnvVars(e) ==
    /\ Truthy(Or(e["SMTP_HOST"], e["SMPTP_HOST"]))
    /\ Truthy(Or(e["SMTP_USER"], e["SMPT_USER"]))
    /\ Truthy(Or(e["SMTP_PASS"], Or(e["SMTP_PASSWORD"], e["SMPT_PASSWORD"])))

\* getSmtpConfigFromEnv() throws when no host is set
SmtpEnvHasHost(e) == Truthy(Or(e["SMTP_HOST"], e["SMPTP_HOST"]))

\* new EmailSender(config)
EmailSender(config, e) ==
    [sesClient |-> config.aws
                     \/ (config.autoDetectFromEnv # "false" /\ hasAwsEnvVars(e)),
     smtpTransporter |-> config.smtp
                     \/ (config.autoDetectFromEnv # "false" /\ hasSmtpEnvVars(e)
                           /\ SmtpEnvHasHost(e)),
     defaultFromEmail |->
         Or(config.defaultFrom,
            Or(e["EMAIL_FROM"],
               Or(e["AWS_EMAIL_FROM"], Or(e["SMTP_EMAIL_FROM"], FallbackFrom))))]

(***************************************************************************)
(* EmailSender: sending                                                    *)
(***************************************************************************)

SendOk(id, provider) ==
    [success |-> TRUE, messageId |-> id, error |-> Undefined, provider |-> provider]

SendFailed(e, provider) ==
    [success |-> FALSE, messageId |-> Undefined, error |-> e, provider |-> provider]

\* the envelope a call is logged with
Envelope(self, emailOptions) ==
    [to |-> emailOptions.to, from |-> Or(emailOptions.from, self.defaultFromEmail)]

\* emailOptions.attachments && emailOptions.attachments.length > 0
HasAttachments(emailOptions) ==
    emailOptions.attachments.defined /\ Len(emailOptions.attachments.list) > 0

\* what Buffer.from(info.message) throws when the transport gave no message
BufferError == Rejected("ERR_INVALID_ARG_TYPE")

\* the cloud send of sendRawEmailWithSes, once the raw message is there
SendRaw(self, emailOptions, built, rawAnswer) ==
    IF rawAnswer.kind = "resolved"
    THEN [val |-> SendOk(rawAnswer.val, "aws-ses"),
          calls |-> <<built, Call("ses.send:SendRawEmail", Envelope(self, emailOptions),
                                  rawAnswer)>>,
          threw |-> FALSE]
    ELSE [val |-> SendFailed(ErrorMessage(rawAnswer, "Unknown AWS SES raw email error"),
                             "aws-ses"),
          calls |-> <<built, Call("ses.send:SendRawEmail", Envelope(self, emailOptions),
                                  rawAnswer)>>,
          threw |-> FALSE]

\* sendRawEmailWithSes: the message goes through a sendmail transport of
\* nodemailer, info.message is made a Buffer, and the Buffer is sent raw
sendRawEmailWithSes(self, emailOptions, w) ==
    IF w.sendmail.kind # "resolved"
    THEN [val |-> SendFailed(ErrorMessage(w.sendmail, "Unknown AWS SES raw email error"),
                             "aws-ses"),
          calls |-> <<Call("sendmail.sendMail", Envelope(self, emailOptions), w.sendmail)>>,
          threw |-> FALSE]
    ELSE IF w.sendmail.val = Undefined
    THEN [val |-> SendFailed(ErrorMessage(BufferError, "Unknown AWS SES raw email error"),
                             "aws-ses"),
          calls |-> <<Call("sendmail.sendMail", Envelope(self, emailOptions), w.sendmail)>>,
          threw |-> FALSE]
    ELSE SendRaw(self, emailOptions,
                 Call("sendmail.sendMail", Envelope(self, emailOptions), w.sendmail),
                 w.sesRaw)

\* sendWithSes without the test for a configured client
sendWithSes_NoGuard(self, emailOptions, w) ==
    IF HasAttachments(emailOptions)
    THEN sendRawEmailWithSes(self, emailOptions, w)
    ELSE IF w.ses.kind = "resolved"
    THEN [val |-> SendOk(w.ses.val, "aws-ses"),
          calls |-> <<Call("ses.send:SendEmail", Envelope(self, emailOptions), w.ses)>>,
          threw |-> FALSE]
    ELSE [val |-> SendFailed(ErrorMessage(w.ses, "Unknown AWS SES error"), "aws-ses"),
          calls |-> <<Call("ses.send:SendEmail", Envelope(self, emailOptions), w.ses)>>,
          threw |-> FALSE]

\* sendWithSes(emailOptions)
sendWithSes(self, emailOptions, w) ==
    IF ~self.sesClient
    THEN [val |-> SendFailed("AWS SES not configured. Please provide AWS credentials.",
                             "aws-ses"),
          calls |-> <<>>, threw |-> FALSE]
    ELSE IF HasAttachments(emailOptions)
    THEN sendRawEmailWithSes(self, emailOptions, w)
    ELSE IF w.ses.kind = "resolved"
    THEN [val |-> SendOk(w.ses.val, "aws-ses"),
          calls |-> <<Call("ses.send:SendEmail", Envelope(self, emailOptions), w.ses)>>,
          threw |-> FALSE]
    ELSE [val |-> SendFailed(ErrorMessage(w.ses, "Unknown AWS SES error"), "aws-ses"),
          calls |-> <<Call("ses.send:SendEmail", Envelope(self, emailOptions), w.ses)>>,
          threw |-> FALSE]

\* sendWithSmtp calling verify() a second time when the first call failed
sendWithSmtp_RetriesVerify(self, emailOptions, w) ==
    IF ~self.smtpTransporter
    THEN [val |-> SendFailed("SMTP not configured. Please provide SMTP configuration.",
                             "smtp"),
          calls |-> <<>>, threw |-> FALSE]
    ELSE IF w.verify.kind # "resolved"
    THEN [val |-> SendFailed(ErrorMessage(w.verify, "Unknown SMTP error"), "smtp"),
          calls |-> <<Call("smtp.verify", NoArg, w.verify),
                      Call("smtp.verify", NoArg, w.verify)>>,
          threw |-> FALSE]
    ELSE IF w.sendMail.kind # "resolved"
    THEN [val |-> SendFailed(ErrorMessage(w.sendMail, "Unknown SMTP error"), "smtp"),
          calls |-> <<Call("smtp.verify", NoArg, w.verify),
                      Call("smtp.sendMail", Envelope(self, emailOptions), w.sendMail)>>,
          threw |-> FALSE]
    ELSE [val |-> SendOk(w.sendMail.val, "smtp"),
          calls |-> <<Call("smtp.verify", NoArg, w.verify),
                      Call("smtp.sendMail", Envelope(self, emailOptions), w.sendMail)>>,
          threw |-> FALSE]

\* sendWithSmtp going on to sendMail after a failed verify()
sendWithSmtp_IgnoresVerify(self, emailOptions, w) ==
    IF ~self.smtpTransporter
    THEN [val |-> SendFailed("SMTP not configured. Please provide SMTP configuration.",
                             "smtp"),
          calls |-> <<>>, threw |-> FALSE]
    ELSE IF w.sendMail.kind # "resolved"
    THEN [val |-> SendFailed(ErrorMessage(w.sendMail, "Unknown SMTP error"), "smtp"),
          calls |-> <<Call("smtp.verify", NoArg, w.verify),
                      Call("smtp.sendMail", Envelope(self, emailOptions), w.sendMail)>>,
          threw |-> FALSE]
    ELSE [val |-> SendOk(w.sendMail.val, "smtp"),
          calls |-> <<Call("smtp.verify", NoArg, w.verify),
                      Call("smtp.sendMail", Envelope(self, emailOptions), w.sendMail)>>,
          threw |-> FALSE]

\* sendWithSmtp(emailOptions)
sendWithSmtp(self, emailOptions, w) ==
    IF ~self.smtpTransporter
    THEN [val |-> SendFailed("SMTP not configured. Please provide SMTP configuration.",
                             "smtp"),
          calls |-> <<>>, threw |-> FALSE]
    ELSE IF w.verify.kind # "resolved"
    THEN [val |-> SendFailed(ErrorMessage(w.verify, "Unknown SMTP error"), "smtp"),
          calls |-> <<Call("smtp.verify", NoArg, w.verify)>>,
          threw |-> FALSE]
    ELSE IF w.sendMail.kind # "resolved"
    THEN [val |-> SendFailed(ErrorMessage(w.sendMail, "Unknown SMTP error"), "smtp"),
          calls |-> <<Call("smtp.verify", NoArg, w.verify),
                      Call("smtp.sendMail", Envelope(self, emailOptions), w.sendMail)>>,
          threw |-> FALSE]
    ELSE [val |-> SendOk(w.sendMail.val, "smtp"),
          calls |-> <<Call("smtp.verify", NoArg, w.verify),
                      Call("smtp.sendMail", Envelope(self, emailOptions), w.sendMail)>>,
          threw |-> FALSE]

\* b, run after a (whose calls come first)
After(a, b) == [b EXCEPT !.calls = a.calls \o @]

\* the tail of send once the cloud attempt, if any, has not succeeded
SendFallback(self, emailOptions, w, sesAttempt) ==
    IF self.smtpTransporter
    THEN After(sesAttempt, sendWithSmtp(self, emailOptions, w))
    ELSE [val |-> SendFailed(
                      "No email provider configured. Please configure AWS SES or SMTP.",
                      "aws-ses"),
          calls |-> sesAttempt.calls, threw |-> sesAttempt.threw]

\* the cloud attempt of send returned whatever it came to
SendAuto_NoFallback(self, emailOptions, w, sesResult) == sesResult

\* the cloud attempt of send without a provider, and what follows it
SendAuto(self, emailOptions, w, sesResult) ==
    IF sesResult.threw \/ sesResult.val.success THEN sesResult
    ELSE SendFallback(self, emailOptions, w, sesResult)

NoAttempt == [val |-> NoReturn, calls |-> <<>>, threw |-> FALSE]

\* send where an explicit 'aws-ses' falls back to SMTP like the automatic choice
send_ExplicitFallsBack(self, emailOptions, provider, w) ==
    IF provider = "smtp" THEN sendWithSmtp(self, emailOptions, w)
    ELSE IF self.sesClient
    THEN SendAuto(self, emailOptions, w, sendWithSes(self, emailOptions, w))
    ELSE SendFallback(self, emailOptions, w, NoAttempt)

\* send(emailOptions, provider?)
send(self, emailOptions, provider, w) ==
    IF provider = "aws-ses" THEN sendWithSes(self, emailOptions, w)
    ELSE IF provider = "smtp" THEN sendWithSmtp(self, emailOptions, w)
    ELSE IF self.sesClient
    THEN SendAuto(self, emailOptions, w, sendWithSes(self, emailOptions, w))
    ELSE SendFallback(self, emailOptions, w, NoAttempt)

(***************************************************************************)
(* EmailSender: testConnection and getConfigStatus                         *)
(***************************************************************************)

NotConfigured == [configured |-> FALSE, connected |-> Undefined, error |-> Undefined]

\* the entry of a probe that keeps no error message
Probed_NoError(answer) ==
    IF answer.kind = "resolved"
    THEN [configured |-> TRUE, connected |-> "true", error |-> Undefined]
    ELSE [configured |-> TRUE, connected |-> "false", error |-> Undefined]

\* one backend's entry of testConnection after its probe was answered
Probed(answer) ==
    IF answer.kind = "resolved"
    THEN [configured |-> TRUE, connected |-> "true", error |-> Undefined]
    ELSE [configured |-> TRUE, connected |-> "false",
          error |-> ErrorMessage(answer, "Unknown error")]

\* testConnection()
testConnection(self, w) ==
    [val |-> [aws |-> IF self.sesClient THEN Probed(w.quota) ELSE NotConfigured,
              smtp |-> IF self.smtpTransporter THEN Probed(w.verify) ELSE NotConfigured],
     calls |-> (IF self.sesClient
                THEN <<Call("ses.send:GetSendQuota", NoArg, w.quota)>> ELSE <<>>)
            \o (IF self.smtpTransporter
                THEN <<Call("smtp.verify", NoArg, w.verify)>> ELSE <<>>),
     threw |-> FALSE]

\* getConfigStatus()
getConfigStatus(self) ==
    [val |-> [hasAwsSes |-> self.sesClient,
              hasSmtp |-> self.smtpTransporter,
              defaultFrom |-> self.defaultFromEmail],
     calls |-> <<>>, threw |-> FALSE]

(***************************************************************************)
(* The sender as a state machine                                           *)
(***************************************************************************)

NoAttachments == [defined |-> FALSE, list |-> <<>>]

Attachments(list) == [defined |-> TRUE, list |-> list]

EmailOptionsSet ==
    [to : {"to@example.com"},
     from : {Undefined, "from@options"},
     attachments : {NoAttachments, Attachments(<<>>), Attachments(<<"guide.txt">>)}]

SendProviders == {Undefined, "aws-ses", "smtp"}

SenderConfigs ==
    {EmailSenderConfig(a, m, f, d) :
        a \in BOOLEAN, m \in BOOLEAN, f \in {Undefined, "from@config"},
        d \in {Undefined, "true", "false"}}

AwsEnv == {"AWS_ACCESS_KEY_ID", "AWS_SECRET_ACCESS_KEY"}

SmtpEnv == {"SMTP_HOST", "SMTP_USER", "SMTP_PASS"}

SenderEnvs ==
    {EnvWith({}),
     EnvWith(AwsEnv \cup {"AWS_EMAIL_FROM"}),
     EnvWith(SmtpEnv \cup {"SMTP_EMAIL_FROM"}),
     EnvWith({"SMPTP_HOST", "SMPT_USER", "SMPT_PASSWORD", "SMPT_EMAIL_FROM"}),
     EnvWith(AwsEnv \cup SmtpEnv \cup {"EMAIL_FROM"})}

SenderWorlds ==
    [ses : SesAnswers,
     sesRaw : {Resolved("ses-raw-id"), Rejected("ses-raw-error")},
     sendmail : {Resolved("raw-message"), Resolved(Undefined), Rejected("ENOENT")},
     verify : VerifyAnswers,
     sendMail : SendMailAnswers,
     quota : {Resolved(Undefined), Rejected("quota-error")}]

\* an instance whose SMTP handle is dropped by a call
AfterCall_DropsSmtp(self) == [self EXCEPT !.smtpTransporter = FALSE]

\* the instance after send, sendWithSes, sendWithSmtp, testConnection or
\* getConfigStatus: sesClient, smtpTransporter and defaultFromEmail are
\* assigned by the constructor only
AfterCall(self) == self

InitSender ==
    /\ env \in SenderEnvs
    /\ \E config \in SenderConfigs : sender = EmailSender(config, env)
    /\ tester = NoTester
    /\ op = "idle"
    /\ arg = NoArg
    /\ ret = NoReturn
    /\ threw = FALSE
    /\ calls = <<>>

Send ==
    /\ Idle
    /\ \E o \in EmailOptionsSet, p \in SendProviders, w \in SenderWorlds :
          Returns("send", [options |-> o, provider |-> p], send(sender, o, p, w))
    /\ sender' = AfterCall(sender)
    /\ UNCHANGED <<env, tester>>

SendWithSes ==
    /\ Idle
    /\ \E o \in EmailOptionsSet, w \in SenderWorlds :
          Returns("sendWithSes", [options |-> o, provider |-> "aws-ses"],
                  sendWithSes(sender, o, w))
    /\ sender' = AfterCall(sender)
    /\ UNCHANGED <<env, tester>>

SendWithSmtp ==
    /\ Idle
    /\ \E o \in EmailOptionsSet, w \in SenderWorlds :
          Returns("sendWithSmtp", [options |-> o, provider |-> "smtp"],
                  sendWithSmtp(sender, o, w))
    /\ sender' = AfterCall(sender)
    /\ UNCHANGED <<env, tester>>

TestConnection ==
    /\ Idle
    /\ \E w \in SenderWorlds : Returns("testConnection", NoArg, testConnection(sender, w))
    /\ sender' = AfterCall(sender)
    /\ UNCHANGED <<env, tester>>

GetConfigStatus ==
    /\ Idle
    /\ Returns("getConfigStatus", NoArg, getConfigStatus(sender))
    /\ sender' = AfterCall(sender)
    /\ UNCHANGED <<env, tester>>

\* quickSendEmail(emailOptions, config?): new EmailSender(config).send(emailOptions)
QuickSendEmail ==
    /\ Idle
    /\ \E o \in EmailOptionsSet, w \in SenderWorlds :
       \E config \in {EmailSenderConfig(FALSE, FALSE, Undefined, Undefined),
                      EmailSenderConfig(FALSE, TRUE, "from@config", "false")} :
          Returns("quickSendEmail", [options |-> o, config |-> config],
                  send(EmailSender(config, env), o, Undefined, w))
    /\ UNCHANGED <<env, tester, sender>>

\* quickSendWithSes(emailOptions, awsConfig?)
QuickSendWithSes ==
    /\ Idle
    /\ \E o \in EmailOptionsSet, w \in SenderWorlds, awsConfig \in BOOLEAN :
          LET config == EmailSenderConfig(awsConfig, FALSE, Undefined, "true")
          IN  Returns("quickSendWithSes", [options |-> o, config |-> config],
                      sendWithSes(EmailSender(config, env), o, w))
    /\ UNCHANGED <<env, tester, sender>>

\* quickSendWithSmtp(emailOptions, smtpConfig?): autoDetectFromEnv: !smtpConfig
QuickSendWithSmtp ==
    /\ Idle
    /\ \E o \in EmailOptionsSet, w \in SenderWorlds, smtpConfig \in BOOLEAN :
          LET config == EmailSenderConfig(FALSE, smtpConfig, Undefined,
                                          IF smtpConfig THEN "false" ELSE "true")
          IN  Returns("quickSendWithSmtp", [options |-> o, config |-> config],
                      sendWithSmtp(EmailSender(config, env), o, w))
    /\ UNCHANGED <<env, tester, sender>>

NextSender ==
    \/ Send
    \/ SendWithSes
    \/ SendWithSmtp
    \/ TestConnection
    \/ GetConfigStatus
    \/ QuickSendEmail
    \/ QuickSendWithSes
    \/ QuickSendWithSmtp
    \/ Return

SpecSender == InitSender /\ [][NextSender]_vars

(***************************************************************************)
(* Constructing a sender and reading its configuration status              *)
(***************************************************************************)

CredentialNames ==
    {"AWS_ACCESS_KEY_ID", "AWS_SECRET_ACCESS_KEY", "SMTP_HOST", "SMPTP_HOST",
     "SMTP_USER", "SMPT_USER", "SMTP_PASS", "SMTP_PASSWORD", "SMPT_PASSWORD"}

FromNames == {"EMAIL_FROM", "AWS_EMAIL_FROM", "SMTP_EMAIL_FROM", "SMPT_EMAIL_FROM"}

ConfigEnvs ==
    {EnvWith(S) : S \in SUBSET CredentialNames} \cup {EnvWith(S) : S \in SUBSET FromNames}

InitConfig ==
    /\ env \in ConfigEnvs
    /\ tester = NoTester
    /\ sender = NoSender
    /\ op = "idle"
    /\ arg = NoArg
    /\ ret = NoReturn
    /\ threw = FALSE
    /\ calls = <<>>

\* const s = new EmailSender(config); s.getConfigStatus()
NewEmailSender ==
    /\ Idle
    /\ \E config \in SenderConfigs :
          /\ sender' = EmailSender(config, env)
          /\ Returns("new EmailSender", config, getConfigStatus(EmailSender(config, env)))
    /\ UNCHANGED <<env, tester>>

NextConfig ==
    \/ NewEmailSender
    \/ Return

SpecConfig == InitConfig /\ [][NextConfig]_vars

(***************************************************************************)
(* The format check on its own                                             *)
(***************************************************************************)

\* the longest string handed to the format check
MaxLen == 6

FormatAlphabet == {"@", ".", " ", "a"}

InitFormat ==
    /\ env = EnvWith({})
    /\ tester = EmailDeliverabilityTester(FALSE, Undefined, env)
    /\ sender = NoSender
    /\ op = "idle"
    /\ arg = NoArg
    /\ ret = NoReturn
    /\ threw = FALSE
    /\ calls = <<>>

\* this.validateEmailFormat(email)
ValidateEmailFormat ==
    /\ Idle
    /\ \E email \in SeqsUpTo(FormatAlphabet, MaxLen) :
          Returns("validateEmailFormat", email,
                  [val |-> validateEmailFormat(email), calls |-> <<>>, threw |-> FALSE])
    /\ UNCHANGED <<env, tester, sender>>

NextFormat ==
    \/ ValidateEmailFormat
    \/ Return

SpecFormat == InitFormat /\ [][NextFormat]_vars

(***************************************************************************)
(* The command line: parseArguments                                        *)
(***************************************************************************)

\* The words of a command line are strings; Chars gives the characters of
\* the words whose text the program looks into.
Chars(word) ==
    CASE word = "a@b.c" -> AddrValid
      [] word = "ab.c" -> AddrNoAt
      [] word = "a@b.c, ab.c" -> AddrValid \o <<",", " ">> \o AddrNoAt
      [] word = "" -> <<>>
      [] word = "true" -> <<"t", "r", "u", "e">>
      [] word = "TRUE" -> <<"T", "R", "U", "E">>
      [] word = "465" -> <<"4", "6", "5">>
      [] word = "--help" -> <<"-", "-", "h", "e", "l", "p">>
      [] OTHER -> <<"w">>

NaN == "NaN"

DigitValue(c) ==
    CASE c = "0" -> 0 [] c = "1" -> 1 [] c = "2" -> 2 [] c = "3" -> 3 [] c = "4" -> 4
      [] c = "5" -> 5 [] c = "6" -> 6 [] c = "7" -> 7 [] c = "8" -> 8 [] c = "9" -> 9
      [] OTHER -> -1

RECURSIVE Digits(_, _)
\* the value of the leading decimal digits of s after acc, and whether one was read
Digits(s, acc) ==
    IF s = <<>> \/ DigitValue(Head(s)) < 0 THEN acc
    ELSE Digits(Tail(s), [read |-> TRUE, value |-> acc.value * 10 + DigitValue(Head(s))])

\* parseInt on text without sign and leading blanks
parseInt(s) ==
    IF Digits(s, [read |-> FALSE, value |-> 0]).read
    THEN Digits(s, [read |-> FALSE, value |-> 0]).value
    ELSE NaN

RECURSIVE split(_, _)
\* s.split(sep) for a one-character separator
split(s, sep) ==
    IF \A i \in 1..Len(s) : s[i] # sep THEN <<s>>
    ELSE LET k == Min({i \in 1..Len(s) : s[i] = sep})
         IN  <<SubSeq(s, 1, k - 1)>> \o split(SubSeq(s, k + 1, Len(s)), sep)

RECURSIVE trimStart(_)
trimStart(s) ==
    IF s # <<>> /\ Head(s) \in Whitespace THEN trimStart(Tail(s)) ELSE s

RECURSIVE trimEnd(_)
trimEnd(s) ==
    IF s # <<>> /\ s[Len(s)] \in Whitespace THEN trimEnd(SubSeq(s, 1, Len(s) - 1)) ELSE s

\* String.prototype.trim
trim(s) == trimEnd(trimStart(s))

NoList == [defined |-> FALSE, list |-> <<>>]

\* nextArg?.split(',').map(email => email.trim())
SplitEmails(nextArg) ==
    IF nextArg = Undefined THEN NoList
    ELSE [defined |-> TRUE,
          list |-> [i \in 1..Len(split(Chars(nextArg), ",")) |->
                       trim(split(Chars(nextArg), ",")[i])]]

\* an option holding the text of a word, or nothing
TextOf(nextArg) == IF nextArg = Undefined THEN NoText ELSE SomeText(Chars(nextArg))

\* const options: CLIOptions = {}
NoOptions ==
    [email |-> NoText, emails |-> NoList, provider |-> Undefined,
     smtpHost |-> Undefined, smtpPort |-> Undefined, smtpUser |-> Undefined,
     smtpPass |-> Undefined, smtpSecure |-> FALSE,
     testSubject |-> Undefined, testMessage |-> Undefined,
     skipDelivery |-> FALSE, help |-> FALSE, validate |-> FALSE, send |-> FALSE,
     sendTo |-> Undefined, sendSubject |-> Undefined, sendMessage |-> Undefined,
     sendHtml |-> Undefined]

\* the switch of parseArguments for a flag that takes the next word
WithValue(options, a, nextArg) ==
    CASE a \in {"--email", "-e"} -> [options EXCEPT !.email = TextOf(nextArg)]
      [] a = "--emails" -> [options EXCEPT !.emails = SplitEmails(nextArg)]
      [] a \in {"--provider", "-p"} -> [options EXCEPT !.provider = nextArg]
      [] a = "--smtp-host" -> [options EXCEPT !.smtpHost = nextArg]
      [] a = "--smtp-port" ->
            [options EXCEPT !.smtpPort =
                IF nextArg = Undefined THEN NaN ELSE parseInt(Chars(nextArg))]
      [] a = "--smtp-user" -> [options EXCEPT !.smtpUser = nextArg]
      [] a = "--smtp-pass" -> [options EXCEPT !.smtpPass = nextArg]
      [] a = "--smtp-secure" ->
            [options EXCEPT !.smtpSecure =
                nextArg # Undefined
                  /\ toLowerCase(Chars(nextArg)) = <<"t", "r", "u", "e">>]
      [] a = "--test-subject" -> [options EXCEPT !.testSubject = nextArg]
      [] a = "--test-message" -> [options EXCEPT !.testMessage = nextArg]
      [] a = "--send-to" -> [options EXCEPT !.sendTo = nextArg]
      [] a = "--send-subject" -> [options EXCEPT !.sendSubject = nextArg]
      [] a = "--send-message" -> [options EXCEPT !.sendMessage = nextArg]
      [] a = "--send-html" -> [options EXCEPT !.sendHtml = nextArg]

ValueFlags ==
    {"--email", "-e", "--emails", "--provider", "-p", "--smtp-host", "--smtp-port",
     "--smtp-user", "--smtp-pass", "--smtp-secure", "--test-subject", "--test-message",
     "--send-to", "--send-subject", "--send-message", "--send-html"}

\* the switch of parseArguments for a flag that stands alone
WithSwitch(options, a) ==
    CASE a = "--skip-delivery" -> [options EXCEPT !.skipDelivery = TRUE]
      [] a \in {"--validate", "-v"} -> [options EXCEPT !.validate = TRUE]
      [] a \in {"--send", "-s"} -> [options EXCEPT !.send = TRUE]
      [] a \in {"--help", "-h"} -> [options EXCEPT !.help = TRUE]
      [] OTHER -> options

RECURSIVE ParseFrom(_, _, _)
\* the for loop of parseArguments from index i on
ParseFrom(args, i, options) ==
    IF i > Len(args) THEN options
    ELSE IF args[i] \in ValueFlags
    THEN ParseFrom(args, i + 2,
             WithValue(options, args[i],
                       IF i + 1 <= Len(args) THEN args[i + 1] ELSE Undefined))
    ELSE ParseFrom(args, i + 1, WithSwitch(options, args[i]))

\* parseArguments(), args being process.argv.slice(2)
parseArguments(args) == ParseFrom(args, 1, NoOptions)

(***************************************************************************)
(* The command line: run                                                   *)
(***************************************************************************)

\* what a run comes to: the exit code of the process, and the branch taken
Exit(code, mode, r) ==
    [val |-> [exitCode |-> code, mode |-> mode], calls |-> r.calls, threw |-> FALSE]

\* smtpConfig of the command line: built only when --smtp-host is given
CliSmtpConfig(options) ==
    IF Truthy(options.smtpHost)
    THEN SmtpConfig(IF Truthy(options.smtpUser) /\ Truthy(options.smtpPass)
                    THEN options.smtpUser ELSE Undefined)
    ELSE NoSmtpConfig

CliTestConfig(options, email) ==
    EmailTestConfig(email, options.provider, CliSmtpConfig(options),
                    options.skipDelivery \/ options.validate)

\* the end of handleTestMode: the catch exits with 1
TestModeExit(r) == Exit(IF r.threw THEN 1 ELSE 0, "test", r)

\* handleTestMode exiting with 1 when no address is deliverable
handleTestMode_FailsOnUndeliverable(options, e, ws) ==
    LET r == IF options.emails.defined
             THEN testMultipleEmails(EmailDeliverabilityTester(FALSE, Undefined, e),
                      [i \in 1..Len(options.emails.list) |->
                          CliTestConfig(options, options.emails.list[i])], ws)
             ELSE testEmailDeliverability(EmailDeliverabilityTester(FALSE, Undefined, e),
                      CliTestConfig(options, options.email.value), ws[1])
    IN  Exit(IF \E i \in 1..Len(r.calls) :
                    r.calls[i].fn = "dns.resolveMx" /\ r.calls[i].answer.kind = "resolved"
             THEN 0 ELSE 1, "test", r)

\* handleTestMode(options)
handleTestMode(options, e, ws) ==
    IF options.emails.defined
    THEN TestModeExit(
             testMultipleEmails(EmailDeliverabilityTester(FALSE, Undefined, e),
                 [i \in 1..Len(options.emails.list) |->
                     CliTestConfig(options, options.emails.list[i])], ws))
    ELSE IF ~Falsy(options.email)
    THEN TestModeExit(
             testEmailDeliverability(EmailDeliverabilityTester(FALSE, Undefined, e),
                 CliTestConfig(options, options.email.value), ws[1]))
    ELSE Exit(0, "test", NoAttempt)

\* new EmailSender({ aws: undefined, smtp: smtpConfig, defaultFrom: ..., autoDetectFromEnv: true })
CliSender(options, e) ==
    EmailSender(
        EmailSenderConfig(FALSE, Truthy(options.smtpHost),
            Or(e["EMAIL_FROM"],
               Or(e["AWS_EMAIL_FROM"], Or(e["SMTP_EMAIL_FROM"], FallbackFrom))),
            "true"),
        e)

\* the end of handleSendMode: a failed result and the catch exit with 1
SendModeExit(r) == Exit(IF r.threw \/ ~r.val.success THEN 1 ELSE 0, "send", r)

\* handleSendMode(options)
handleSendMode(options, e, w) ==
    IF ~Truthy(options.sendTo) THEN Exit(1, "send", NoAttempt)
    ELSE IF ~Truthy(options.sendSubject) /\ ~Truthy(options.sendMessage)
              /\ ~Truthy(options.sendHtml)
    THEN Exit(1, "send", NoAttempt)
    ELSE SendModeExit(
             send(CliSender(options, e),
                  [to |-> options.sendTo, from |-> Undefined, attachments |-> NoAttachments],
                  IF options.provider = "both" THEN Undefined ELSE options.provider,
                  w))

\* run() after parseArguments()
RunWith(options, e, ws, w) ==
    IF options.help THEN Exit(0, "help", NoAttempt)
    ELSE IF options.send THEN handleSendMode(options, e, w)
    ELSE IF Falsy(options.email) /\ ~options.emails.defined
    THEN Exit(1, "test", NoAttempt)
    ELSE handleTestMode(options, e, ws)

\* run(), the process being started with the words args
run(args, e, ws, w) == RunWith(parseArguments(args), e, ws, w)

\* The command lines tried: one piece of each kind, in this order.
HelpWords == {<<>>, <<"--help">>}

ModeWords == {<<>>, <<"--send">>, <<"-s">>}

AddressWords ==
    {<<>>, <<"--email", "a@b.c">>, <<"-e", "ab.c">>, <<"--email", "">>,
     <<"--email", "--help">>, <<"--emails", "a@b.c, ab.c">>, <<"--emails", "">>,
     <<"--send-to", "to@example.com">>, <<"--send-to", "">>}

ContentWords ==
    {<<>>, <<"--send-subject", "Hello">>, <<"--send-message", "Text">>,
     <<"--send-html", "Html">>, <<"--validate">>, <<"--provider", "smtp">>,
     <<"--send-subject", "Hello", "--provider", "both">>,
     <<"--send-message", "Text", "--smtp-host", "smtp.example.com", "--smtp-port", "465",
       "--smtp-secure", "TRUE">>}

LastWords == {<<>>, <<"--skip-delivery">>, <<"--email">>, <<"--emails">>, <<"--send-to">>}

CommandLines ==
    {h \o m \o a \o c \o l :
        h \in HelpWords, m \in ModeWords, a \in AddressWords, c \in ContentWords,
        l \in LastWords}

\* the backends all accepting, or all refusing
CliSenderWorlds ==
    {[ses |-> d[1], sesRaw |-> Resolved("ses-raw-id"), sendmail |-> Resolved("raw-message"),
      verify |-> d[2], sendMail |-> d[3], quota |-> Resolved(Undefined)] :
        d \in {<<Resolved("ses-id"), Resolved(Undefined), Resolved("smtp-id")>>,
               <<Rejected("ses-error"), Resolved(Undefined), Rejected("sendmail-error")>>,
               <<Rejected("ses-error"), Rejected("verify-error"), Resolved("smtp-id")>>}}

InitCli ==
    /\ env \in SenderEnvs
    /\ tester = NoTester
    /\ sender = NoSender
    /\ op = "idle"
    /\ arg = NoArg
    /\ ret = NoReturn
    /\ threw = FALSE
    /\ calls = <<>>

\* the number of addresses a run may test
AddressCount(options) ==
    IF options.emails.defined THEN Len(options.emails.list) ELSE 1

\* one start of the command line program
Run ==
    /\ Idle
    /\ \E args \in CommandLines, w \in CliSenderWorlds :
          \E ws \in [1..AddressCount(parseArguments(args)) -> BatchWorlds] :
              Returns("run", args, run(args, env, ws, w))
    /\ UNCHANGED <<env, tester, sender>>

NextCli ==
    \/ Run
    \/ Return

SpecCli == InitCli /\ [][NextCli]_vars

(***************************************************************************)
(* A tester and a sender in one process                                    *)
(***************************************************************************)

LibraryEnvs == {EnvWith({}), EnvWith(AwsEnv \cup SmtpEnv \cup {"EMAIL_FROM"})}

InitLibrary ==
    /\ env \in LibraryEnvs
    /\ \E awsConfig \in BOOLEAN :
          tester = EmailDeliverabilityTester(awsConfig, Undefined, env)
    /\ \E aws \in BOOLEAN, smtp \in BOOLEAN :
          sender = EmailSender(EmailSenderConfig(aws, smtp, Undefined, Undefined), env)
    /\ op = "idle"
    /\ arg = NoArg
    /\ ret = NoReturn
    /\ threw = FALSE
    /\ calls = <<>>

NextLibrary ==
    \/ TestEmailDeliverability
    \/ Send
    \/ Return

SpecLibrary == InitLibrary /\ [][NextLibrary]_vars

(***************************************************************************)
(* Properties of the tester                                                *)
(***************************************************************************)

\* the operations that take one EmailTestConfig and return one EmailTestResult
SingleOps ==
    {"testEmailDeliverability", "quickEmailValidation", "quickEmailTestWithSes",
     "quickEmailTestWithSmtp"}

ValidateOps == {"validateEmails", "batchEmailValidation"}

BackendFns == {"ses.send:SendEmail", "smtp.verify", "smtp.sendMail"}

DnsFns == {"dns.resolveMx", "dns.resolveTxt"}

NoBackendCall == \A i \in 1..Len(calls) : calls[i].fn \notin BackendFns

\* C1: with skipActualDelivery = true no backend operation is invoked (no
\* cloud send, no SMTP verify, no SMTP sendMail), whatever the address, the
\* provider and the configuration of the backends; validateEmails and
\* batchEmailValidation always set the flag.
C1_SkipInvokesNoBackend ==
    /\ (op \in SingleOps /\ arg.skipActualDelivery) => NoBackendCall
    /\ op \in ValidateOps => NoBackendCall
    /\ (op = "testMultipleEmails" /\ \A i \in 1..Len(arg) : arg[i].skipActualDelivery)
          => NoBackendCall

C1_Witness ==
    /\ op = "testEmailDeliverability"
    /\ arg.skipActualDelivery
    /\ arg.provider = "both"
    /\ arg.smtpConfig.given
    /\ tester.sesClient
    /\ ret.isValid
    /\ Len(calls) = 3

IsSentinel(d) == d.success /\ d.messageId = "skipped-test-mode"

\* C2: for a format-valid address tested with skipActualDelivery = true, each
\* backend result reported is the sentinel success, whether or not the cloud
\* client is configured and whether or not an smtpConfig was supplied.
C2_SkipAlwaysSentinel ==
    (op \in SingleOps /\ arg.skipActualDelivery /\ ret.isValid) =>
        /\ ret.deliverabilityTests.awsSes.present
              => IsSentinel(ret.deliverabilityTests.awsSes)
        /\ ret.deliverabilityTests.smtp.present
              => IsSentinel(ret.deliverabilityTests.smtp)

Failed(c) == c.answer.kind # "resolved"

IsDmarcName(name) == startsWith(name, <<"_", "d", "m", "a", "r", "c", ".">>)

\* what a caught rejection must leave in a backend's result
ReportsFailure(d, c) ==
    /\ d.present
    /\ ~d.success
    /\ c.answer.kind = "error" => d.error = c.answer.val

\* C7: testEmailDeliverability never throws: a failed MX lookup gives
\* domainExists = false and no MX records, a failed TXT lookup an absent
\* SPF/DMARC record, a failed backend call success = false with the error
\* message in that backend's result.
C7_FailuresAreReported ==
    op \in SingleOps =>
        /\ ~threw
        /\ \A i \in 1..Len(calls) : Failed(calls[i]) =>
              /\ calls[i].fn = "dns.resolveMx"
                    => (~ret.domainExists /\ ret.mxRecords = <<>>)
              /\ (calls[i].fn = "dns.resolveTxt" /\ ~IsDmarcName(calls[i].arg))
                    => ~ret.spfRecord.defined
              /\ (calls[i].fn = "dns.resolveTxt" /\ IsDmarcName(calls[i].arg))
                    => ~ret.dmarcRecord.defined
              /\ calls[i].fn = "ses.send:SendEmail"
                    => ReportsFailure(ret.deliverabilityTests.awsSes, calls[i])
              /\ calls[i].fn \in {"smtp.verify", "smtp.sendMail"}
                    => ReportsFailure(ret.deliverabilityTests.smtp, calls[i])

C7_Witness ==
    /\ op = "testEmailDeliverability"
    /\ ~threw
    /\ Len(calls) = 6
    /\ \A i \in {1, 2, 3, 4, 6} : Failed(calls[i])
    /\ calls[4].answer.kind = "error"
    /\ calls[6].fn = "smtp.sendMail"

MalformedEmails == {AddrNoAt, AddrNoDot, AddrSpace}

\* C8: for an address that fails the format check, testEmailDeliverability
\* returns isValid = false, domainExists = false, no MX records, an empty
\* deliverabilityTests and the invalid-format recommendation, and issues no
\* DNS lookup and no backend call.
C8_InvalidFormatReturnsAtOnce ==
    (op \in SingleOps /\ arg.email \in MalformedEmails) =>
        /\ ~threw
        /\ ~ret.isValid
        /\ ~ret.domainExists
        /\ ret.mxRecords = <<>>
        /\ ~ret.deliverabilityTests.awsSes.present
        /\ ~ret.deliverabilityTests.smtp.present
        /\ LineInvalidFormat \in Range(ret.recommendations)
        /\ calls = <<>>

C8_Witness ==
    /\ op = "testEmailDeliverability"
    /\ arg.email = AddrNoDot
    /\ ~arg.skipActualDelivery
    /\ arg.provider = "both"
    /\ arg.smtpConfig.given
    /\ tester.sesClient
    /\ ~ret.isValid
    /\ calls = <<>>

RecommendationsOk(r) ==
    /\ Len(r.recommendations) > 0
    /\ ~r.isValid => r.recommendations[1] = LineInvalidFormat
    /\ ~r.domainExists => LineNoDomain \in Range(r.recommendations)

Deliverable(r) == r.isValid /\ r.domainExists /\ Len(r.mxRecords) >= 1

\* C10: testMultipleEmails returns total = number of configs = number of
\* results, successful = the number of results that are valid, whose domain
\* exists and that have an MX record, failed = the number of the others, so
\* that successful + failed = total.
C10_BatchCounts ==
    op = "testMultipleEmails" =>
        /\ ret.total = Len(arg)
        /\ ret.total = Len(ret.results)
        /\ ret.successful =
              Cardinality({i \in 1..Len(ret.results) : Deliverable(ret.results[i])})
        /\ ret.failed =
              Cardinality({i \in 1..Len(ret.results) : ~Deliverable(ret.results[i])})
        /\ ret.successful + ret.failed = ret.total

C10_Witness ==
    /\ op = "testMultipleEmails"
    /\ Len(arg) = MaxBatch
    /\ ret.successful = 1
    /\ ret.failed = MaxBatch - 1
    /\ \E i \in 1..Len(ret.results) :
          ret.results[i].isValid /\ ret.results[i].domainExists
              /\ ret.results[i].mxRecords = <<>>

(***************************************************************************)
(* Properties of the sender                                                *)
(***************************************************************************)

\* what sendWithSes may call, and what sendWithSmtp may call
SesPathFns == {"ses.send:SendEmail", "ses.send:SendRawEmail", "sendmail.sendMail"}

CloudSendFns == {"ses.send:SendEmail", "ses.send:SendRawEmail"}

SmtpFns == {"smtp.verify", "smtp.sendMail"}

Called(F) == \E i \in 1..Len(calls) : calls[i].fn \in F

CloudSendSucceeded ==
    \E i \in 1..Len(calls) : calls[i].fn \in CloudSendFns /\ ~Failed(calls[i])

\* C3: send without a provider attempts the cloud API first whenever an SES
\* client is configured, and attempts SMTP iff SMTP is configured and the
\* cloud attempt was not made or did not succeed; when the cloud attempt
\* succeeds SMTP is not contacted and the cloud result is returned.
C3_AutoTriesSesThenSmtp ==
    (op = "send" /\ arg.provider = Undefined) =>
        /\ sender.sesClient => (calls # <<>> /\ calls[1].fn \in SesPathFns)
        /\ ~sender.sesClient => ~Called(SesPathFns)
        /\ Called(SmtpFns) <=>
              (sender.smtpTransporter /\ (~sender.sesClient \/ ~CloudSendSucceeded))
        /\ \A i \in 1..Len(calls) : \A j \in 1..Len(calls) :
              (calls[i].fn \in SesPathFns /\ calls[j].fn \in SmtpFns) => i < j
        /\ CloudSendSucceeded =>
              /\ ret.success
              /\ ret.provider = "aws-ses"
              /\ ret.messageId = calls[Len(calls)].answer.val

C3_Witness ==
    /\ op = "send"
    /\ arg.provider = Undefined
    /\ sender.sesClient
    /\ sender.smtpTransporter
    /\ Len(calls) = 3
    /\ calls[1].fn = "ses.send:SendEmail"
    /\ Failed(calls[1])
    /\ calls[3].fn = "smtp.sendMail"
    /\ ret.success
    /\ ret.provider = "smtp"

\* C4: send with an explicit provider uses that backend only, also when it
\* is not configured or its attempt fails, and the result's provider is the
\* one requested.
C4_ExplicitProviderOnly ==
    /\ (op = "send" /\ arg.provider = "aws-ses") =>
          (~Called(SmtpFns) /\ ret.provider = "aws-ses")
    /\ (op = "send" /\ arg.provider = "smtp") =>
          (~Called(SesPathFns) /\ ret.provider = "smtp")

C4_Witness ==
    /\ op = "send"
    /\ arg.provider = "aws-ses"
    /\ sender.sesClient
    /\ sender.smtpTransporter
    /\ Called(CloudSendFns)
    /\ ~ret.success

TransportFns == CloudSendFns \cup SmtpFns

FailedTransport == {i \in 1..Len(calls) : calls[i].fn \in TransportFns /\ Failed(calls[i])}

NoBackendSucceeded ==
    ~\E i \in 1..Len(calls) :
        calls[i].fn \in CloudSendFns \cup {"smtp.sendMail"} /\ ~Failed(calls[i])

\* C5: send, sendWithSes and sendWithSmtp never throw; when a transport call
\* of a configured backend (cloud send, SMTP verify, SMTP sendMail) fails and
\* no backend succeeds, the result has success = false and its error is the
\* message of a backend attempt that failed in that call.
C5_TransportErrorReported ==
    op \in {"send", "sendWithSes", "sendWithSmtp"} =>
        /\ ~threw
        /\ (FailedTransport # {} /\ NoBackendSucceeded
              /\ \A i \in FailedTransport : calls[i].answer.kind = "error") =>
              /\ ~ret.success
              /\ \E i \in FailedTransport : ret.error = calls[i].answer.val

ConfigErrors ==
    {"AWS SES not configured. Please provide AWS credentials.",
     "SMTP not configured. Please provide SMTP configuration.",
     "No email provider configured. Please configure AWS SES or SMTP."}

\* the backend the operation last returned needs is not configured
NeededBackendMissing ==
    \/ (op = "sendWithSes" \/ (op = "send" /\ arg.provider = "aws-ses"))
          /\ ~sender.sesClient
    \/ (op = "sendWithSmtp" \/ (op = "send" /\ arg.provider = "smtp"))
          /\ ~sender.smtpTransporter
    \/ op = "send" /\ arg.provider = Undefined
          /\ ~sender.sesClient /\ ~sender.smtpTransporter

\* C6: when the backend an operation needs is not configured (sendWithSes
\* without SES client, sendWithSmtp without transporter, send with neither),
\* it returns success = false with a configuration error and makes no
\* external call.
C6_UnconfiguredMakesNoCall ==
    NeededBackendMissing =>
        /\ ~threw
        /\ ~ret.success
        /\ ret.error \in ConfigErrors
        /\ calls = <<>>

C6_Witness ==
    /\ op = "sendWithSes"
    /\ ~sender.sesClient
    /\ sender.smtpTransporter
    /\ HasAttachments(arg.options)
    /\ ret.error = "AWS SES not configured. Please provide AWS credentials."
    /\ calls = <<>>

(***************************************************************************)
(* Properties of the batch operations                                      *)
(***************************************************************************)

\* how often x occurs in the sequence q
Occurrences(q, x) == Cardinality({i \in 1..Len(q) : q[i] = x})

InvalidAddresses(r) == [i \in 1..Len(r.invalidEmails) |-> r.invalidEmails[i].email]

\* the MX lookups that were answered with at least one record
MxFound == {i \in 1..Len(calls) :
               /\ calls[i].fn = "dns.resolveMx"
               /\ ~Failed(calls[i])
               /\ Len(calls[i].answer.val) >= 1}

\* C11: validateEmails on N addresses (N = 0 and duplicates included) returns
\* summary.total = N, summary.valid = validEmails.length, summary.invalid =
\* invalidEmails.length, the two lengths adding up to N; every input address
\* goes to exactly one list, to validEmails iff it is valid, its domain
\* exists and it has an MX record; the empty list gives all counts 0.
C11_ValidateEmailsPartitions ==
    op \in ValidateOps =>
        /\ ret.summary.total = Len(arg)
        /\ ret.summary.valid = Len(ret.validEmails)
        /\ ret.summary.invalid = Len(ret.invalidEmails)
        /\ Len(ret.validEmails) + Len(ret.invalidEmails) = Len(arg)
        /\ \A e \in Range(arg) :
              Occurrences(ret.validEmails, e) + Occurrences(InvalidAddresses(ret), e)
                  = Occurrences(arg, e)
        /\ \A i \in 1..Len(ret.validEmails) : validateEmailFormat(ret.validEmails[i])
        /\ Len(ret.validEmails) = Cardinality(MxFound)
        /\ arg = <<>> =>
              (ret.validEmails = <<>> /\ ret.invalidEmails = <<>>
                 /\ ret.summary = [total |-> 0, valid |-> 0, invalid |-> 0])

C11_Witness ==
    /\ op = "validateEmails"
    /\ arg = <<AddrValid, AddrValid>>
    /\ ret.validEmails = <<AddrValid>>
    /\ InvalidAddresses(ret) = <<AddrValid>>
    /\ calls[1].fn = "dns.resolveMx"
    /\ ~Failed(calls[1])
    /\ calls[1].answer.val = <<>>

Raised(i) == arg.faults[i] # NoFault

\* the items whose test ran and got as far as the MX lookup
Looked == {i \in 1..Len(arg.configs) :
              ~Raised(i) /\ validateEmailFormat(arg.configs[i].email)}

\* C12: testMultipleEmails never aborts part-way: an item whose test raises
\* an exception is recorded as a failed result (isValid = false,
\* domainExists = false, no MX records, counted in failed), the items after
\* it are still tested, and results has one entry per config in input order.
C12_BatchCatchesItemFailure ==
    op = "testMultipleEmails:overridden" =>
        /\ ~threw
        /\ Len(ret.results) = Len(arg.configs)
        /\ ret.total = Len(arg.configs)
        /\ \A i \in 1..Len(arg.configs) :
              /\ ret.results[i].email = arg.configs[i].email
              /\ Raised(i) =>
                    /\ ~ret.results[i].isValid
                    /\ ~ret.results[i].domainExists
                    /\ ret.results[i].mxRecords = <<>>
              /\ ~Raised(i) =>
                    ret.results[i].isValid = validateEmailFormat(arg.configs[i].email)
        /\ Count(calls, "dns.resolveMx") = Cardinality(Looked)
        /\ ret.failed =
              Cardinality({i \in 1..Len(ret.results) : ~Deliverable(ret.results[i])})
        /\ ret.failed >= Cardinality({i \in 1..Len(arg.configs) : Raised(i)})

C12_Witness ==
    /\ op = "testMultipleEmails:overridden"
    /\ Len(arg.configs) = 2
    /\ Raised(1)
    /\ ~Raised(2)
    /\ ret.results[1].recommendations = <<LineErrorTesting("boom")>>
    /\ Deliverable(ret.results[2])
    /\ ret.failed = 1
    /\ ret.successful = 1

(***************************************************************************)
(* Properties of both classes                                              *)
(***************************************************************************)

TxtLookups(dmarc) ==
    {i \in 1..Len(calls) :
        calls[i].fn = "dns.resolveTxt" /\ (IsDmarcName(calls[i].arg) <=> dmarc)}

\* C13: no operation retries an external call: one testEmailDeliverability
\* issues the MX lookup, the SPF lookup and the DMARC lookup at most once
\* each and contacts each backend at most once; one send issues the cloud
\* send at most once and SMTP verify and sendMail at most once each, also
\* after a failure.
C13_NoRetries ==
    /\ op = "testEmailDeliverability" =>
          /\ Count(calls, "dns.resolveMx") <= 1
          /\ Cardinality(TxtLookups(FALSE)) <= 1
          /\ Cardinality(TxtLookups(TRUE)) <= 1
          /\ Count(calls, "ses.send:SendEmail") <= 1
          /\ Count(calls, "smtp.verify") <= 1
          /\ Count(calls, "smtp.sendMail") <= 1
    /\ op = "send" =>
          /\ Cardinality({i \in 1..Len(calls) : calls[i].fn \in CloudSendFns}) <= 1
          /\ Count(calls, "smtp.verify") <= 1
          /\ Count(calls, "smtp.sendMail") <= 1

C13_Witness ==
    /\ op = "send"
    /\ arg.provider = Undefined
    /\ Len(calls) = 2
    /\ calls[1].fn = "ses.send:SendEmail"
    /\ Failed(calls[1])
    /\ calls[2].fn = "smtp.verify"
    /\ Failed(calls[2])
    /\ ~ret.success

\* the MX lookup of the call found no record: it failed, or it was answered
\* with an empty list
NoMxRecords ==
    \E i \in 1..Len(calls) :
        /\ calls[i].fn = "dns.resolveMx"
        /\ (Failed(calls[i]) \/ Len(calls[i].answer.val) = 0)

\* C14: for a format-valid address whose domain has no MX records (the
\* resolver fails or answers with an empty list), testEmailDeliverability
\* returns domainExists = false and an empty mxRecords list.
C14_NoMxMeansNoDomain ==
    (op \in SingleOps /\ ret.isValid /\ NoMxRecords) =>
        (~ret.domainExists /\ ret.mxRecords = <<>>)

(***************************************************************************)
(* Properties of the command line                                          *)
(***************************************************************************)

\* the branch run() takes for the options: --help before --send before testing
ModeOf(options) ==
    IF options.help THEN "help" ELSE IF options.send THEN "send" ELSE "test"

\* a required argument of the mode is missing
MissingRequired(options) ==
    \/ /\ ModeOf(options) = "test"
       /\ Falsy(options.email)
       /\ ~options.emails.defined
    \/ /\ ModeOf(options) = "send"
       /\ \/ ~Truthy(options.sendTo)
          \/ /\ ~Truthy(options.sendSubject)
             /\ ~Truthy(options.sendMessage)
             /\ ~Truthy(options.sendHtml)

\* C15: the run exits with 1 exactly when a required argument is missing
\* (test mode without --email/--emails, send mode without --send-to or
\* without any of --send-subject/--send-message/--send-html) or when the send
\* it was asked for did not succeed; every other run exits with 0, --help and
\* test runs without a deliverable address included.
C15_ExitCodes ==
    op = "run" =>
        /\ ~threw
        /\ ret.mode = ModeOf(parseArguments(arg))
        /\ ret.exitCode =
              IF MissingRequired(parseArguments(arg))
                   \/ (ret.mode = "send" /\ NoBackendSucceeded)
              THEN 1 ELSE 0
        /\ MissingRequired(parseArguments(arg)) => calls = <<>>

C15_Witness ==
    /\ op = "run"
    /\ ret.mode = "test"
    /\ ret.exitCode = 0
    /\ Count(calls, "dns.resolveMx") = 1
    /\ Failed(calls[1])
    /\ Len(parseArguments(arg).emails.list) = 2

(***************************************************************************)
(* Properties of the sender: attachments, testConnection, configuration    *)
(***************************************************************************)

\* C16: sendWithSes on a configured sender with at least one attachment
\* issues exactly one raw cloud send and no structured send, and hands the
\* message to no delivery transport other than the cloud API while building
\* it; without attachments it issues exactly one structured send and no raw
\* send.
C16_AttachmentsGoRawOnly ==
    (op = "sendWithSes" /\ sender.sesClient) =>
        IF HasAttachments(arg.options)
        THEN /\ Count(calls, "ses.send:SendRawEmail") = 1
             /\ Count(calls, "ses.send:SendEmail") = 0
             /\ \A i \in 1..Len(calls) : calls[i].fn \in CloudSendFns
        ELSE /\ Count(calls, "ses.send:SendEmail") = 1
             /\ Count(calls, "ses.send:SendRawEmail") = 0
             /\ \A i \in 1..Len(calls) : calls[i].fn \in CloudSendFns

\* one backend's entry of the testConnection result against its handle and
\* the probe of that backend
StatusOk(entry, handle, probe) ==
    /\ entry.configured = handle
    /\ entry.connected # Undefined <=> entry.configured
    /\ entry.error # Undefined <=> entry.connected = "false"
    /\ Count(calls, probe) = IF handle THEN 1 ELSE 0
    /\ \A i \in 1..Len(calls) : calls[i].fn = probe =>
          (entry.connected = "true" <=> ~Failed(calls[i]))

\* C17: testConnection sends no mail (only a quota query and an SMTP verify,
\* each only for a configured backend) and never throws; per backend,
\* configured is true iff the handle exists, connected is defined iff
\* configured, and error is set iff connected is false.
C17_TestConnectionOnlyProbes ==
    op = "testConnection" =>
        /\ ~threw
        /\ \A i \in 1..Len(calls) : calls[i].fn \in {"ses.send:GetSendQuota", "smtp.verify"}
        /\ StatusOk(ret.aws, sender.sesClient, "ses.send:GetSendQuota")
        /\ StatusOk(ret.smtp, sender.smtpTransporter, "smtp.verify")

C17_Witness ==
    /\ op = "testConnection"
    /\ sender.sesClient
    /\ sender.smtpTransporter
    /\ Len(calls) = 2
    /\ Failed(calls[1])
    /\ ret.aws.error = "quota-error"
    /\ ret.smtp.connected = "true"

(***************************************************************************)
(* Properties of the format check                                          *)
(***************************************************************************)

\* the part of s after its only "@"
AfterAt(s) == SubSeq(s, Min(Ats(s)) + 1, Len(s))

\* the shape local@domain.tld in words: no blank, one "@" that is not the
\* first character, and after it a "." that is neither first nor last
WellShaped(s) ==
    /\ \A k \in 1..Len(s) : s[k] \notin Whitespace
    /\ Cardinality(Ats(s)) = 1
    /\ Min(Ats(s)) > 1
    /\ \E k \in 2..(Len(AfterAt(s)) - 1) : AfterAt(s)[k] = "."

\* C18: the format check accepts a string iff it has no whitespace, exactly
\* one "@" with a character before it, and after the "@" a "." that is
\* neither the first nor the last character of that part; a string without
\* "@", or without "." after the "@", is rejected.
C18_FormatShape ==
    op = "validateEmailFormat" =>
        /\ ret <=> WellShaped(arg)
        /\ Ats(arg) = {} => ~ret
        /\ (Ats(arg) # {} /\ \A k \in 1..Len(AfterAt(arg)) : AfterAt(arg)[k] # ".")
              => ~ret

C18_Witness ==
    /\ op = "validateEmailFormat"
    /\ arg = <<"a", "@", ".", "a", ".", "a">>
    /\ ret = TRUE

(***************************************************************************)
(* Properties of the sender's construction                                 *)
(***************************************************************************)

Set(n) == Truthy(env[n])

AutoDetects(config) == config.autoDetectFromEnv # "false"

\* C19: hasAwsSes is true iff an aws config was supplied or auto-detection
\* is on and both AWS keys are set; hasSmtp is true iff an smtp config was
\* supplied or auto-detection is on and a host (SMTP_HOST or SMPTP_HOST), a
\* user (SMTP_USER or SMPT_USER) and a password (SMTP_PASS, SMTP_PASSWORD or
\* SMPT_PASSWORD) are all set; with auto-detection off and no explicit
\* config neither backend is active.
C19_ConfigStatus ==
    op = "new EmailSender" =>
        /\ ret.hasAwsSes <=>
              \/ arg.aws
              \/ /\ AutoDetects(arg)
                 /\ Set("AWS_ACCESS_KEY_ID")
                 /\ Set("AWS_SECRET_ACCESS_KEY")
        /\ ret.hasSmtp <=>
              \/ arg.smtp
              \/ /\ AutoDetects(arg)
                 /\ Set("SMTP_HOST") \/ Set("SMPTP_HOST")
                 /\ Set("SMTP_USER") \/ Set("SMPT_USER")
                 /\ Set("SMTP_PASS") \/ Set("SMTP_PASSWORD") \/ Set("SMPT_PASSWORD")
        /\ (~AutoDetects(arg) /\ ~arg.aws /\ ~arg.smtp)
              => (~ret.hasAwsSes /\ ~ret.hasSmtp)

C19_Witness ==
    /\ op = "new EmailSender"
    /\ ~arg.smtp
    /\ arg.autoDetectFromEnv = Undefined
    /\ ~Set("SMTP_HOST") /\ ~Set("SMTP_USER") /\ ~Set("SMTP_PASS") /\ ~Set("SMTP_PASSWORD")
    /\ Set("SMPTP_HOST") /\ Set("SMPT_USER") /\ Set("SMPT_PASSWORD")
    /\ ret.hasSmtp
    /\ ~ret.hasAwsSes

\* C20: when SMPT_EMAIL_FROM is the only from-address source set (no
\* config.defaultFrom, no EMAIL_FROM, AWS_EMAIL_FROM or SMTP_EMAIL_FROM), the
\* sender's defaultFrom equals its value.
C20_SmptEmailFromIsRead ==
    ( /\ op = "new EmailSender"
      /\ ~Truthy(arg.defaultFrom)
      /\ ~Set("EMAIL_FROM") /\ ~Set("AWS_EMAIL_FROM") /\ ~Set("SMTP_EMAIL_FROM")
      /\ Set("SMPT_EMAIL_FROM") )
        => ret.defaultFrom = env["SMPT_EMAIL_FROM"]

(***************************************************************************)
(* Properties of the command line: test mode and the SMTP environment      *)
(***************************************************************************)

\* C21: a test run with --provider smtp and no --smtp-host, started with the
\* SMTP variables set and asked for a real delivery to a well-formed address,
\* exercises the SMTP backend (verify is called) instead of reporting that
\* no SMTP configuration was provided.
C21_TestModeDetectsSmtpEnv ==
    ( /\ op = "run"
      /\ ret.mode = "test"
      /\ parseArguments(arg).provider = "smtp"
      /\ ~Truthy(parseArguments(arg).smtpHost)
      /\ ~parseArguments(arg).skipDelivery
      /\ ~parseArguments(arg).validate
      /\ hasSmtpEnvVars(env)
      /\ Called({"dns.resolveMx"}) )
        => Called(SmtpFns)

(***************************************************************************)
(* Properties of the recommendations                                       *)
(***************************************************************************)

\* the deficiencies of a result, in the order their lines are emitted
DeficiencyHolds(r) ==
    <<~r.isValid,
      ~r.domainExists,
      Len(r.mxRecords) = 0,
      Falsy(r.spfRecord),
      Falsy(r.dmarcRecord),
      r.deliverabilityTests.awsSes.present /\ ~r.deliverabilityTests.awsSes.success,
      r.deliverabilityTests.smtp.present /\ ~r.deliverabilityTests.smtp.success>>

DeficiencyLine(r) ==
    <<LineInvalidFormat, LineNoDomain, LineNoMx, LineNoSpf, LineNoDmarc,
      LineSesFailed(r.deliverabilityTests.awsSes.error),
      LineSmtpFailed(r.deliverabilityTests.smtp.error)>>

Deficiencies(r) == {k \in 1..7 : DeficiencyHolds(r)[k]}

\* the i-th deficiency that holds
NthDeficiency(r, i) ==
    CHOOSE k \in Deficiencies(r) : Cardinality({j \in Deficiencies(r) : j < k}) = i - 1

OneLinePerDeficiency(r) ==
    /\ (LineSuccess \in Range(r.recommendations)) <=> (Deficiencies(r) = {})
    /\ Deficiencies(r) = {} => r.recommendations = <<LineSuccess>>
    /\ Deficiencies(r) # {} =>
          /\ Len(r.recommendations) = Cardinality(Deficiencies(r))
          /\ \A i \in 1..Len(r.recommendations) :
                r.recommendations[i] = DeficiencyLine(r)[NthDeficiency(r, i)]

\* C22: the recommendations of a result are the single success line iff none
\* of the deficiencies holds (invalid format, domain missing, empty MX list,
\* no SPF, no DMARC, a failed cloud result, a failed SMTP result); otherwise
\* they are exactly one line per deficiency that holds, in that order, and
\* never the success line.
C22_OneLinePerDeficiency ==
    /\ op \in SingleOps => OneLinePerDeficiency(ret)
    /\ op = "testMultipleEmails" =>
          \A i \in 1..Len(ret.results) : OneLinePerDeficiency(ret.results[i])

C22_Witness ==
    /\ op \in SingleOps
    /\ ret.isValid
    /\ ~ret.domainExists
    /\ Len(ret.recommendations) = 6
    /\ ret.recommendations[1] = LineNoDomain
    /\ ret.recommendations[2] = LineNoMx

(***************************************************************************)
(* Properties of the SMTP paths                                            *)
(***************************************************************************)

\* the SMTP result the operation last returned reports
SmtpFailureReported(e) ==
    IF op = "send"
    THEN ~ret.success /\ ret.error = e /\ ret.provider = "smtp"
    ELSE /\ ret.deliverabilityTests.smtp.present
         /\ ~ret.deliverabilityTests.smtp.success
         /\ ret.deliverabilityTests.smtp.error = e

\* C23: in the sender's SMTP path and in the tester's SMTP test with real
\* delivery, sendMail is issued only after a verify() of the same call has
\* succeeded; when verify() fails sendMail is never issued and the result is
\* success = false with the verify error.
C23_VerifyBeforeSendMail ==
    op \in {"send", "testEmailDeliverability"} =>
        /\ \A i \in 1..Len(calls) :
              calls[i].fn = "smtp.sendMail" =>
                  \E j \in 1..(i - 1) : calls[j].fn = "smtp.verify" /\ ~Failed(calls[j])
        /\ \A j \in 1..Len(calls) :
              (calls[j].fn = "smtp.verify" /\ Failed(calls[j])) =>
                  /\ ~Called({"smtp.sendMail"})
                  /\ SmtpFailureReported(calls[j].answer.val)

C23_Witness ==
    /\ op = "testEmailDeliverability"
    /\ Called({"smtp.verify"})
    /\ ~Called({"smtp.sendMail"})
    /\ ret.deliverabilityTests.smtp.error = "verify-error"

(***************************************************************************)
(* testMultipleEmails step by step: every external call is issued, stays   *)
(* in flight, and completes                                                *)
(***************************************************************************)

\* the answer of a call that has been issued and has not completed
Pending == [kind |-> "pending", val |-> Undefined]

\* the loop with no await: it goes on while calls are in flight
Awaited_NoAwait(log) == TRUE

\* await: the caller goes on only when the calls it issued have completed
Awaited(log) == \A k \in 1..Len(log) : log[k].answer # Pending

\* no testEmailDeliverability is running
NoItem == [none |-> TRUE]

\* testMultipleEmails(configs) is entered: startTime, results, successful, failed
StartBatch ==
    /\ Idle
    /\ \E configs \in SeqsUpTo(BatchConfigs, MaxBatch) :
          /\ op' = "testMultipleEmails:running"
          /\ arg' = configs
          /\ ret' = [item |-> 0, current |-> NoItem, plan |-> <<>>,
                     acc |-> [results |-> <<>>, successful |-> 0, failed |-> 0,
                              calls |-> <<>>]]
    /\ threw' = FALSE
    /\ calls' = <<>>
    /\ UNCHANGED <<env, tester, sender>>

\* for (const config of configs): this.testEmailDeliverability(config) is
\* entered; w is what the environment will answer its calls with
StartItem ==
    /\ op = "testMultipleEmails:running"
    /\ ret.current = NoItem
    /\ ret.item < Len(arg)
    /\ Awaited(calls)
    /\ \E w \in BatchWorlds :
          ret' = [ret EXCEPT
                     !.item = @ + 1,
                     !.current = testEmailDeliverability(tester, arg[ret.item + 1], w),
                     !.plan = testEmailDeliverability(tester, arg[ret.item + 1], w).calls]
    /\ UNCHANGED <<env, tester, sender, op, arg, threw, calls>>

\* the running testEmailDeliverability issues its next external call
IssueCall ==
    /\ op = "testMultipleEmails:running"
    /\ ret.current # NoItem
    /\ ret.plan # <<>>
    /\ Awaited(calls)
    /\ calls' = Append(calls, [fn |-> Head(ret.plan).fn,
                               arg |-> Head(ret.plan).arg,
                               answer |-> Pending,
                               reply |-> Head(ret.plan).answer,
                               item |-> ret.item])
    /\ ret' = [ret EXCEPT !.plan = Tail(@)]
    /\ UNCHANGED <<env, tester, sender, op, arg, threw>>

\* a call in flight completes: its promise resolves or rejects
CompleteCall ==
    /\ op = "testMultipleEmails:running"
    /\ \E k \in 1..Len(calls) :
          /\ calls[k].answer = Pending
          /\ calls' = [calls EXCEPT ![k].answer = calls[k].reply]
    /\ UNCHANGED <<env, tester, sender, op, arg, ret, threw>>

\* await this.testEmailDeliverability(config) returns; the loop body pushes
\* and counts the result
FinishItem ==
    /\ op = "testMultipleEmails:running"
    /\ ret.current # NoItem
    /\ ret.plan = <<>>
    /\ Awaited(calls)
    /\ ret' = [ret EXCEPT !.current = NoItem,
                          !.acc = BatchStep(@, arg[ret.item], ret.current)]
    /\ UNCHANGED <<env, tester, sender, op, arg, threw, calls>>

\* the loop is over: return { successful, failed, total, results, duration }
FinishBatch ==
    /\ op = "testMultipleEmails:running"
    /\ ret.current = NoItem
    /\ ret.item = Len(arg)
    /\ Awaited(calls)
    /\ op' = "testMultipleEmails:awaited"
    /\ ret' = BatchResult(arg, ret.acc).val
    /\ UNCHANGED <<env, tester, sender, arg, threw, calls>>

\* the caller has taken the batch result
TakeBatchResult ==
    /\ op = "testMultipleEmails:awaited"
    /\ Return

NextSteps ==
    \/ StartBatch
    \/ StartItem
    \/ IssueCall
    \/ CompleteCall
    \/ FinishItem
    \/ FinishBatch
    \/ TakeBatchResult

SpecSteps == InitTester /\ [][NextSteps]_vars

(***************************************************************************)
(* Properties of the batch, step by step                                   *)
(***************************************************************************)

InFlight == {k \in 1..Len(calls) : calls[k].answer = Pending}

\* C24: testMultipleEmails works on one item at a time, in input order: at
\* most one external call is in flight at any moment, the calls are issued
\* in the order of the items, and no call of a later item is in the log
\* while a call of an earlier item is in flight or still to be issued.
C24_OneCallInFlight ==
    op \in {"testMultipleEmails:running", "testMultipleEmails:awaited"} =>
        /\ Cardinality(InFlight) <= 1
        /\ \A k \in 1..Len(calls) : \A l \in 1..Len(calls) :
              k < l => /\ calls[k].item <= calls[l].item
                       /\ calls[k].answer # Pending
        /\ op = "testMultipleEmails:running" =>
              \A k \in 1..Len(calls) :
                  /\ calls[k].item <= ret.item
                  /\ calls[k].item < ret.item => calls[k].answer # Pending
        /\ op = "testMultipleEmails:awaited" => InFlight = {}

C24_Witness ==
    /\ op = "testMultipleEmails:running"
    /\ ret.item = 2
    /\ Len(arg) = 2
    /\ Cardinality(InFlight) = 1
    /\ \E k \in 1..Len(calls) : calls[k].item = 1
    /\ \E k \in InFlight : calls[k].item = 2 /\ calls[k].fn = "smtp.verify"

(***************************************************************************)
(* Properties of the sender: the fields after construction                 *)
(***************************************************************************)

\* C25: no step of a sender changes what getConfigStatus() reports (hasAwsSes,
\* hasSmtp, defaultFrom), whichever of send, sendWithSes, sendWithSmtp,
\* testConnection and getConfigStatus is called and whatever it comes to, so
\* the status stays the one the constructor set; and getConfigStatus()
\* returns exactly that status.
C25_StatusFixedAtConstruction ==
    [][ /\ getConfigStatus(sender').val = getConfigStatus(sender).val
        /\ op' = "getConfigStatus" => ret' = getConfigStatus(sender).val ]_vars

C25_Witness ==
    /\ op = "send"
    /\ ~ret.success
    /\ \E i \in 1..Len(calls) : calls[i].fn = "smtp.verify" /\ Failed(calls[i])
    /\ \E i \in 1..Len(calls) : calls[i].fn = "ses.send:SendEmail" /\ Failed(calls[i])
    /\ getConfigStatus(sender).val.hasAwsSes
    /\ getConfigStatus(sender).val.hasSmtp

(***************************************************************************)
(* testEmailDeliverability against TXT records of several chunks           *)
(***************************************************************************)

\* the most chunks one TXT record is made of
MaxChunks == 2

TxtChunks == {ChunkSpf, ChunkDmarc, ChunkOther}

\* a TXT record is string[]: its chunks
TxtRecords == UNION {[1..n -> TxtChunks] : n \in 1..MaxChunks}

\* what resolveTxt comes to: no record, one, two, or a failed lookup
TxtLists ==
    {Resolved(<<>>), Rejected("ENODATA")}
        \cup {Resolved(<<r>>) : r \in TxtRecords}
        \cup {Resolved(<<r, s>>) : r \in TxtRecords, s \in TxtRecords}

\* one of the two TXT lookups is answered freely, the other finds nothing
TxtWorlds ==
    {[mx |-> Resolved(<<Mx1>>), spfTxt |-> t[1], dmarcTxt |-> t[2],
      ses |-> Resolved("ses-id"), verify |-> Resolved(Undefined),
      sendMail |-> Resolved("smtp-id")] :
        t \in (TxtLists \X {Rejected("ENODATA")}) \cup ({Resolved(<<>>)} \X TxtLists)}

\* testEmailDeliverability({ email, skipActualDelivery: true })
TestTxtLookups ==
    /\ Idle
    /\ \E w \in TxtWorlds :
          Returns("testEmailDeliverability",
                  EmailTestConfig(AddrValid, Undefined, NoSmtpConfig, TRUE),
                  testEmailDeliverability(tester,
                      EmailTestConfig(AddrValid, Undefined, NoSmtpConfig, TRUE), w))
    /\ UNCHANGED <<env, tester, sender>>

NextTxt ==
    \/ TestTxtLookups
    \/ Return

SpecTxt == InitTester /\ [][NextTxt]_vars

(***************************************************************************)
(* Properties of the SPF and DMARC fields                                  *)
(***************************************************************************)

\* the answers of the TXT lookups of the call, at the domain itself or at _dmarc.<domain>
TxtAnswered(dmarc) ==
    {calls[i].answer : i \in {k \in 1..Len(calls) :
        calls[k].fn = "dns.resolveTxt" /\ (IsDmarcName(calls[k].arg) <=> dmarc)}}

\* the joined value of a record
ValueOf(record) == join(record)

\* the value starts, whatever the case of its letters, with the prefix
Qualifies(value, prefix) == startsWith(toLowerCase(value), prefix)

\* the field is absent, or it is the value of the first record of the
\* lookup's answer whose value starts with the prefix
FieldOk(field, dmarc, prefix) ==
    \A a \in TxtAnswered(dmarc) :
        LET values == IF a.kind = "resolved"
                      THEN [i \in 1..Len(a.val) |-> ValueOf(a.val[i])]
                      ELSE <<>>
            hits == {i \in 1..Len(values) : Qualifies(values[i], prefix)}
        IN  IF hits = {}
            THEN Falsy(field)
            ELSE /\ ~Falsy(field)
                 /\ field.value = values[Min(hits)]
                 /\ Qualifies(field.value, prefix)

\* C26: a reported spfRecord starts (case-insensitively) with v=spf1 and is
\* the first TXT record of the domain that does; a reported dmarcRecord
\* starts with v=dmarc1 and is the first such record at _dmarc.<domain>; when
\* no record qualifies or the lookup fails the field is absent and nothing
\* is thrown; also for records of several chunks.
C26_TxtFieldsQualify ==
    op = "testEmailDeliverability" =>
        /\ ~threw
        /\ FieldOk(ret.spfRecord, FALSE, PrefixSpf)
        /\ FieldOk(ret.dmarcRecord, TRUE, PrefixDmarc)

(***************************************************************************)
(* Properties of the tester: which backends a test exercises               *)
(***************************************************************************)

SesRequested(config) == config.provider \in {"aws-ses", "both", Undefined}

SmtpRequested(config) == config.provider \in {"smtp", "both", Undefined}

\* C27: for a format-valid address the result holds an awsSes entry iff the
\* provider is aws-ses, both or omitted, and an smtp entry iff it is smtp,
\* both or omitted, whatever the MX, SPF and DMARC lookups came to; without
\* skipActualDelivery a requested backend that is configured is contacted
\* (cloud send, SMTP verify), also when the domain does not exist or has no
\* MX record.
C27_BackendsIgnoreDns ==
    (op = "testEmailDeliverability" /\ ret.isValid) =>
        /\ ret.deliverabilityTests.awsSes.present <=> SesRequested(arg)
        /\ ret.deliverabilityTests.smtp.present <=> SmtpRequested(arg)
        /\ (SesRequested(arg) /\ ~arg.skipActualDelivery /\ tester.sesClient)
              => Called({"ses.send:SendEmail"})
        /\ (SmtpRequested(arg) /\ ~arg.skipActualDelivery /\ arg.smtpConfig.given)
              => Called({"smtp.verify"})

C27_Witness ==
    /\ op = "testEmailDeliverability"
    /\ ret.isValid
    /\ ~ret.domainExists
    /\ Falsy(ret.spfRecord)
    /\ arg.provider = Undefined
    /\ ~arg.skipActualDelivery
    /\ ret.deliverabilityTests.awsSes.success
    /\ ret.deliverabilityTests.smtp.success
    /\ Called({"ses.send:SendEmail"})
    /\ Called({"smtp.sendMail"})

(***************************************************************************)
(* Properties of the result's fields                                       *)
(***************************************************************************)

FieldsAgree(r) ==
    /\ Len(r.mxRecords) > 0 => r.domainExists
    /\ r.domainExists => r.isValid

\* C28: in every result of testEmailDeliverability, alone or in a batch
\* result (the one the catch branch builds included), a non-empty mxRecords
\* list implies domainExists = true and domainExists = true implies
\* isValid = true.
C28_FieldsAgree ==
    /\ op \in SingleOps => FieldsAgree(ret)
    /\ op = "testMultipleEmails" =>
          \A i \in 1..Len(ret.results) : FieldsAgree(ret.results[i])
    /\ \A config \in BatchConfigs : FieldsAgree(CaughtResult(config, RejectedOther))

C28_Witness ==
    /\ op = "testMultipleEmails"
    /\ Len(ret.results) = 2
    /\ ~ret.results[1].isValid
    /\ ret.results[1].mxRecords = <<>>
    /\ ret.results[2].domainExists
    /\ Len(ret.results[2].mxRecords) = 1

(***************************************************************************)
(* Properties of a test without provider and without SMTP configuration    *)
(***************************************************************************)

LineSmtpNotProvided == LineSmtpFailed("SMTP configuration not provided")

\* C29: a format-valid address tested with no provider and no smtpConfig
\* (testEmailDeliverability so called, quickEmailValidation, validateEmails,
\* batchEmailValidation) gets the smtp entry 'SMTP configuration not
\* provided', with skipActualDelivery = true too; its recommendations hold
\* the SMTP-failure line and never the success line, whatever the lookups
\* return.
C29_NoSmtpConfigAlwaysFails ==
    /\ ( /\ op \in {"testEmailDeliverability", "quickEmailValidation"}
         /\ arg.provider = Undefined
         /\ ~arg.smtpConfig.given
         /\ ret.isValid ) =>
            /\ ret.deliverabilityTests.smtp = DeliveryFailed("SMTP configuration not provided")
            /\ LineSmtpNotProvided \in Range(ret.recommendations)
            /\ LineSuccess \notin Range(ret.recommendations)
    /\ op \in ValidateOps =>
          \A i \in 1..Len(ret.invalidEmails) :
              validateEmailFormat(ret.invalidEmails[i].email) =>
                  /\ LineSmtpNotProvided \in Range(ret.invalidEmails[i].issues)
                  /\ LineSuccess \notin Range(ret.invalidEmails[i].issues)

C29_Witness ==
    /\ op = "quickEmailValidation"
    /\ arg.skipActualDelivery
    /\ ret.isValid
    /\ ret.domainExists
    /\ Len(ret.mxRecords) = 1
    /\ ~Falsy(ret.spfRecord)
    /\ ~Falsy(ret.dmarcRecord)
    /\ LineSmtpNotProvided \in Range(ret.recommendations)

(***************************************************************************)
(* Properties of the lists of validateEmails                               *)
(***************************************************************************)

\* the entries of q at the positions S, in the order of q
Pick(q, S) ==
    [i \in 1..Cardinality(S) |->
        q[CHOOSE k \in S : Cardinality({j \in S : j < k}) = i - 1]]

\* C30: every entry of invalidEmails has at least one issue and none of its
\* issues is the success line; validEmails and invalidEmails each keep the
\* relative order of the input addresses: they are the input at some
\* positions and at the other positions, in input order.
C30_InvalidEntriesOrdered ==
    op \in ValidateOps =>
        /\ \A i \in 1..Len(ret.invalidEmails) :
              /\ Len(ret.invalidEmails[i].issues) > 0
              /\ LineSuccess \notin Range(ret.invalidEmails[i].issues)
              /\ \A k \in 1..Len(ret.invalidEmails[i].issues) :
                    ~Includes(ret.invalidEmails[i].issues[k], "successfully")
        /\ \E V \in SUBSET (1..Len(arg)) :
              /\ ret.validEmails = Pick(arg, V)
              /\ [i \in 1..Len(ret.invalidEmails) |-> ret.invalidEmails[i].email]
                    = Pick(arg, (1..Len(arg)) \ V)

C30_Witness ==
    /\ op = "validateEmails"
    /\ arg = <<AddrValid, AddrNoAt>>
    /\ Len(ret.invalidEmails) = 2
    /\ ret.invalidEmails[1].email = AddrValid
    /\ Len(ret.invalidEmails[1].issues) >= 2
    /\ ret.invalidEmails[2].email = AddrNoAt

====
